---- MODULE Spec2Model ----
(***************************************************************************)
(* Model of the texture-map synthesis and seamless-tiling pipeline:        *)
(*   MapGenerator      (src/src/components/ThreeViewer.tsx, lines 465-730) *)
(*   TilingProcessor   (src/src/utils/TilingProcessor.ts)                  *)
(*                                                                         *)
(* Numbers.  An ImageData buffer is a Uint8ClampedArray: a function from   *)
(* 0 .. 4*w*h-1 to 0..255.  A JavaScript number that is not stored in a    *)
(* buffer is modelled as an exact rational <<n, d>> with d > 0; a store    *)
(* into the buffer rounds it half-to-even and clamps it (ToUint8Clamped).  *)
(* The square root of generateNormalMap is never approximated: roundings   *)
(* of c*sqrt(A/B) are decided by exact integer comparisons (FracLeq).      *)
(***************************************************************************)
EXTENDS Integers, Sequences, FiniteSets, TLC

VARIABLES
    input,    \* the buffer the caller started from
    src,      \* the buffer given to the current / last call
    out,      \* the buffer the last call returned (NoImage before a call)
    call,     \* the last call: operation and parameters
    reads,    \* indices dereferenced by the neighbour lookups of the last call
    status,   \* "idle" | "returned" | "rejected" | "fed"
    pass,     \* number of calls made so far in this run
    weight,   \* the number the last applyCurve call returned
    raster,   \* how the canvas rasterises a drawImage at a half-pixel offset
    run,      \* the processMaps execution in progress: position, options, buffers
    heap,     \* the ImageData objects allocated so far; a buffer is its index
    calls,    \* the stage calls made on heap buffers, in order
    viewer,   \* the 3D preview: environment mode, geometry, scene children, HDRI loads
    download  \* the ZIP export: the isDownloading state and the generations in progress

vars == <<input, src, out, call, reads, status, pass, weight, raster, run, heap, calls, viewer,
          download>>

(***************************************************************************)
(* Bounds of the model.                                                    *)
(***************************************************************************)
MaxW == 4
MaxH == 2
MaxArea == 8
MaxMapArea == 4
MaxPasses == 2
MaxReadDim == 5
CurveSteps == 40
\* user actions on the 3D preview in one run
MaxChanges == 2
\* lit pixels of the canvases given to the energy weighting
MaxLit == 3

(***************************************************************************)
(* Exact arithmetic on JavaScript numbers.                                 *)
(***************************************************************************)
Abs(x) == IF x < 0 THEN -x ELSE x
Min(a, b) == IF a < b THEN a ELSE b
Max(a, b) == IF a > b THEN a ELSE b

RECURSIVE GCD(_, _)
GCD(a, b) == IF b = 0 THEN Abs(a) ELSE GCD(b, a % b)

\* the rational n/d in lowest terms with a positive denominator
Rat(n, d) ==
    LET g == GCD(n, d)
        s == IF d < 0 THEN -1 ELSE 1
    IN  <<(s * n) \div g, (s * d) \div g>>

RInt(n) == <<n, 1>>
RAdd(a, b) ==
    LET g == GCD(a[2], b[2])
    IN  Rat(a[1] * (b[2] \div g) + b[1] * (a[2] \div g), (a[2] \div g) * b[2])
RNeg(a) == <<-a[1], a[2]>>
RSub(a, b) == RAdd(a, RNeg(b))
RMul(a, b) ==
    LET g1 == GCD(a[1], b[2])
        g2 == GCD(b[1], a[2])
    IN  IF a[1] = 0 \/ b[1] = 0 THEN <<0, 1>>
        ELSE Rat((a[1] \div g1) * (b[1] \div g2), (a[2] \div g2) * (b[2] \div g1))
RDiv(a, b) == RMul(a, Rat(b[2], b[1]))
RLess(a, b) ==
    LET g == GCD(a[2], b[2])
    IN  a[1] * (b[2] \div g) < b[1] * (a[2] \div g)
RLeq(a, b) == ~RLess(b, a)
RMax(a, b) == IF RLess(a, b) THEN b ELSE a
RMin(a, b) == IF RLess(b, a) THEN b ELSE a
RFloor(a) == a[1] \div a[2]

\* a/b <= c/d for a, c >= 0 and b, d > 0, by continued fractions: no product is
\* formed, so operands may use the full integer width
RECURSIVE FracLeq(_, _, _, _)
FracLeq(a, b, c, d) ==
    LET qa == a \div b
        qc == c \div d
        ra == a % b
        rc == c % d
    IN  IF qa < qc THEN TRUE
        ELSE IF qa > qc THEN FALSE
        ELSE IF ra = 0 THEN TRUE
        ELSE IF rc = 0 THEN FALSE
        ELSE FracLeq(d, rc, b, ra)

\* largest j in lo..hi with j <= C*sqrt(A/B)   (0 <= A <= B, B > 0, lo satisfies it)
RECURSIVE FloorScaledRoot(_, _, _, _, _)
FloorScaledRoot(lo, hi, C, A, B) ==
    IF lo = hi THEN lo
    ELSE LET mid == (lo + hi + 1) \div 2
         IN  IF FracLeq(mid * mid, C * C, A, B)
             THEN FloorScaledRoot(mid, hi, C, A, B)
             ELSE FloorScaledRoot(lo, mid - 1, C, A, B)

\* j = C*sqrt(A/B) exactly
IsScaledRoot(j, C, A, B) ==
    FracLeq(j * j, C * C, A, B) /\ FracLeq(A, B, j * j, C * C)

(***************************************************************************)
(* Stores into a Uint8ClampedArray.                                        *)
(***************************************************************************)
\* the stored byte for the rational v: clamp to [0,255], round half to even
ToUint8Clamped(v) ==
    LET n == v[1]
        d == v[2]
        f == n \div d
        r == n % d
    IN  IF n <= 0 THEN 0
        ELSE IF n >= 255 * d THEN 255
        ELSE IF 2 * r < d THEN f
        ELSE IF 2 * r > d THEN f + 1
        ELSE IF f % 2 = 0 THEN f ELSE f + 1

\* the stored byte for a value v >= 0 given as f2 = floor(2v) and whether 2v is
\* an integer (used where v involves a square root)
ToUint8FromHalves(f2, isInt) ==
    LET m == f2 \div 2
    IN  IF f2 <= 0 THEN 0
        ELSE IF f2 >= 510 THEN 255
        ELSE IF f2 % 2 = 0 THEN m
        ELSE IF ~isInt THEN m + 1
        ELSE IF m % 2 = 0 THEN m ELSE m + 1

(***************************************************************************)
(* ImageData.                                                              *)
(***************************************************************************)
NoImage == [width |-> 0, height |-> 0, data |-> <<>>]

\* new ImageData(w, h) whose pixel number k = y*w + x is pix[k] = <<r, g, b, a>>
\* (the pixels are evaluated once, before the bytes are laid out)
Materialized(f) == IF f = f THEN f ELSE f

ImageOf(w, h, pix) ==
    LET px == Materialized(pix)
    IN  [width |-> w, height |-> h,
         data |-> Materialized([i \in 0 .. (4 * w * h - 1) |-> px[i \div 4][(i % 4) + 1]])]

PixelNumbers(w, h) == 0 .. (w * h - 1)

\* data[i]; a read outside the buffer yields undefined, modelled as -1
At(data, i) == IF i \in DOMAIN data THEN data[i] ELSE -1

Idx(w, x, y) == (y * w + x) * 4

Pixel(img, x, y) ==
    LET i == Idx(img.width, x, y)
    IN  <<At(img.data, i), At(img.data, i + 1), At(img.data, i + 2), At(img.data, i + 3)>>

(***************************************************************************)
(* MapGenerator.toGrayscale                                                *)
(***************************************************************************)
\* a faulty average that divides the channel sum by two
GrayOfPixelHalved(p) == ToUint8Clamped(Rat(p[1] + p[2] + p[3], 2))

\* avg = (data[i] + data[i+1] + data[i+2]) / 3, as stored in outData
GrayOfPixel(p) == ToUint8Clamped(Rat(p[1] + p[2] + p[3], 3))

toGrayscale(imageData) ==
    LET w == imageData.width
        h == imageData.height
    IN  ImageOf(w, h,
            [k \in PixelNumbers(w, h) |->
                LET p == Pixel(imageData, k % w, k \div w)
                    avg == GrayOfPixel(p)
                IN  <<avg, avg, avg, p[4]>>])

(***************************************************************************)
(* MapGenerator.applyColorCorrection.  opts holds the numbers as the caller *)
(* passes them (an absent option is 0).  A colour is <<r, g, b>> of exact   *)
(* numbers between the stages.                                             *)
(***************************************************************************)
NoOpts == [brightness |-> 0, contrast |-> 0, saturation |-> 0, hue |-> 0, delightAmount |-> 0]

\* opts.x || 0: an option absent from the record counts as 0
Opt(opts, name) == IF name \in DOMAIN opts THEN opts[name] ELSE 0

\* (opts.x || 0) / 100
Percent(v) == Rat(v, 100)

\* contrastFactor = (259 * (contrast * 255 + 255)) / (255 * (259 - contrast * 255))
ContrastFactor(opts) ==
    LET c == RMul(Percent(Opt(opts, "contrast")), RInt(255))
    IN  RDiv(RMul(RInt(259), RAdd(c, RInt(255))), RMul(RInt(255), RSub(RInt(259), c)))

\* Math.cos / Math.sin of hue degrees, for the multiples of 90 (taken as the
\* exact 0, 1 and -1)
CosDeg(hue) == CASE hue % 360 = 0 -> 1 [] hue % 360 = 180 -> -1 [] OTHER -> 0
SinDeg(hue) == CASE hue % 360 = 90 -> 1 [] hue % 360 = 270 -> -1 [] OTHER -> 0

\* 1. delight: v + (avg - v) * delight * 0.5 when delight > 0
DelightStage(c, opts) ==
    LET delight == Percent(Opt(opts, "delightAmount"))
        avg == RDiv(RAdd(RAdd(c[1], c[2]), c[3]), RInt(3))
        f(v) == RAdd(v, RMul(RMul(RSub(avg, v), delight), Rat(1, 2)))
    IN  IF RLess(RInt(0), delight) THEN <<f(c[1]), f(c[2]), f(c[3])>> ELSE c

\* the shift with the option taken as a fraction of 1 instead of a percentage
BrightnessStageOfFraction(c, opts) ==
    LET d == RMul(RInt(Opt(opts, "brightness")), RInt(255))
    IN  <<RAdd(c[1], d), RAdd(c[2], d), RAdd(c[3], d)>>

\* 2. brightness: v += brightness * 255
BrightnessStage(c, opts) ==
    LET d == RMul(Percent(Opt(opts, "brightness")), RInt(255))
    IN  <<RAdd(c[1], d), RAdd(c[2], d), RAdd(c[3], d)>>

\* 3. contrast: v = contrastFactor * (v - 128) + 128
ContrastStage(c, opts) ==
    LET cf == ContrastFactor(opts)
        f(v) == RAdd(RMul(cf, RSub(v, RInt(128))), RInt(128))
    IN  <<f(c[1]), f(c[2]), f(c[3])>>

\* the saturation stage scaling the chroma by saturation instead of 1 + saturation
SaturationStageScaledByOption(c, opts) ==
    LET gray == RAdd(RAdd(RMul(Rat(2989, 10000), c[1]), RMul(Rat(587, 1000), c[2])),
                     RMul(Rat(114, 1000), c[3]))
        k == Percent(Opt(opts, "saturation"))
        f(v) == RAdd(gray, RMul(RSub(v, gray), k))
    IN  <<f(c[1]), f(c[2]), f(c[3])>>

\* 4. saturation: v = gray + (v - gray) * (1 + saturation),
\*    gray = 0.2989 r + 0.587 g + 0.114 b
SaturationStage(c, opts) ==
    LET gray == RAdd(RAdd(RMul(Rat(2989, 10000), c[1]), RMul(Rat(587, 1000), c[2])),
                     RMul(Rat(114, 1000), c[3]))
        k == RAdd(RInt(1), Percent(Opt(opts, "saturation")))
        f(v) == RAdd(gray, RMul(RSub(v, gray), k))
    IN  <<f(c[1]), f(c[2]), f(c[3])>>

\* one row (a + b cosA + c sinA) of the hue matrix, in thousandths
HueCoefficient(a, b, c, hue) == Rat(a + b * CosDeg(hue) + c * SinDeg(hue), 1000)

\* 5. hue: the rotation matrix, applied when Math.abs(hue) > 0
HueStage(c, opts) ==
    LET hue == Opt(opts, "hue")
        row(k1, k2, k3) == RAdd(RAdd(RMul(k1, c[1]), RMul(k2, c[2])), RMul(k3, c[3]))
    IN  IF hue = 0 THEN c
        ELSE <<row(HueCoefficient(213, 787, -213, hue), HueCoefficient(715, -715, -715, hue),
                   HueCoefficient(72, -72, 928, hue)),
               row(HueCoefficient(213, -213, 143, hue), HueCoefficient(715, 285, 140, hue),
                   HueCoefficient(72, -72, -283, hue)),
               row(HueCoefficient(213, -213, -787, hue), HueCoefficient(715, -715, 715, hue),
                   HueCoefficient(72, 928, 72, hue))>>

\* data[i] = Math.min(255, Math.max(0, v)), as stored
ClampStore(v) == ToUint8Clamped(RMin(RInt(255), RMax(RInt(0), v)))

\* the pixel written with an opaque alpha
CorrectPixelOpaque(p, opts) ==
    LET c0 == <<RInt(p[1]), RInt(p[2]), RInt(p[3])>>
        c5 == HueStage(SaturationStage(ContrastStage(
                  BrightnessStage(DelightStage(c0, opts), opts), opts), opts), opts)
    IN  <<ClampStore(c5[1]), ClampStore(c5[2]), ClampStore(c5[3]), 255>>

\* Math.min(255, Math.max(0, v)) without the store
ClampRange(c) ==
    LET f(v) == RMin(RInt(255), RMax(RInt(0), v))
    IN  <<f(c[1]), f(c[2]), f(c[3])>>

\* the pixel with every stage's output clamped before the next stage reads it
CorrectPixelClampingEachStage(p, opts) ==
    LET c0 == <<RInt(p[1]), RInt(p[2]), RInt(p[3])>>
        c1 == ClampRange(DelightStage(c0, opts))
        c2 == ClampRange(BrightnessStage(c1, opts))
        c3 == ClampRange(ContrastStage(c2, opts))
        c4 == ClampRange(SaturationStage(c3, opts))
        c5 == HueStage(c4, opts)
    IN  <<ClampStore(c5[1]), ClampStore(c5[2]), ClampStore(c5[3]), p[4]>>

\* one pixel: the five stages in the loop's order, then the three stores; the
\* alpha byte is the one the constructor copied
CorrectPixel(p, opts) ==
    LET c0 == <<RInt(p[1]), RInt(p[2]), RInt(p[3])>>
        c5 == HueStage(SaturationStage(ContrastStage(
                  BrightnessStage(DelightStage(c0, opts), opts), opts), opts), opts)
    IN  <<ClampStore(c5[1]), ClampStore(c5[2]), ClampStore(c5[3]), p[4]>>

applyColorCorrection(imageData, opts) ==
    LET w == imageData.width
        h == imageData.height
    IN  ImageOf(w, h,
            [k \in PixelNumbers(w, h) |-> CorrectPixel(Pixel(imageData, k % w, k \div w), opts)])

(***************************************************************************)
(* MapGenerator.generateHeightMap                                          *)
(***************************************************************************)
\* factor = (259 * (c + 255)) / (255 * (259 - c)) with c = contrast * 128
HeightFactor(contrast) ==
    LET c == RMul(contrast, RInt(128))
    IN  RDiv(RMul(RInt(259), RAdd(c, RInt(255))), RMul(RInt(255), RSub(RInt(259), c)))

\* the remap around a pivot of 127
HeightValueOffPivot(g, contrast) ==
    ToUint8Clamped(RMin(RInt(255), RMax(RInt(0),
        RAdd(RMul(HeightFactor(contrast), RInt(g - 127)), RInt(128)))))

\* Math.min(255, Math.max(0, factor * (data[i] - 128) + 128)), as stored
HeightValue(g, contrast) ==
    ToUint8Clamped(RMin(RInt(255), RMax(RInt(0),
        RAdd(RMul(HeightFactor(contrast), RInt(g - 128)), RInt(128)))))

\* the loop over gray.data: the first channel is read, the three colour
\* channels are written, alpha is left as toGrayscale copied it
HeightRemap(gray, contrast) ==
    LET w == gray.width
        h == gray.height
    IN  ImageOf(w, h,
            [k \in PixelNumbers(w, h) |->
                LET p == Pixel(gray, k % w, k \div w)
                    val == HeightValue(p[1], contrast)
                IN  <<val, val, val, p[4]>>])

generateHeightMap(imageData, contrast) == HeightRemap(toGrayscale(imageData), contrast)

(***************************************************************************)
(* MapGenerator.generateRoughnessMap                                       *)
(***************************************************************************)
\* an inversion about 256
InvertValueAbout256(v) == ToUint8Clamped(RInt(256 - v))

\* 255 - data[i], as stored
InvertValue(v) == ToUint8Clamped(RInt(255 - v))

generateRoughnessMap(imageData, invert) ==
    LET gray == toGrayscale(imageData)
        w == gray.width
        h == gray.height
    IN  IF invert
        THEN ImageOf(w, h,
                 [k \in PixelNumbers(w, h) |->
                     LET p == Pixel(gray, k % w, k \div w)
                         val == InvertValue(p[1])
                     IN  <<val, val, val, p[4]>>])
        ELSE gray

(***************************************************************************)
(* MapGenerator.generateNormalMap                                          *)
(***************************************************************************)
\* the left / upper neighbour taken without the border test
PrevCoordUnclamped(v) == v - 1

\* xLeft / yUp and xRight / yDown: the neighbour coordinate, replaced by the
\* pixel's own coordinate at the border
PrevCoord(v) == IF v > 0 THEN v - 1 ELSE v
NextCoord(v, n) == IF v < n - 1 THEN v + 1 ELSE v

\* the eight indices val00 .. val22 of the Sobel window of pixel (x, y)
SobelIdx(w, h, x, y) ==
    LET xLeft == PrevCoord(x)
        xRight == NextCoord(x, w)
        yUp == PrevCoord(y)
        yDown == NextCoord(y, h)
    IN  [i00 |-> Idx(w, xLeft, yUp),   i10 |-> Idx(w, x, yUp),   i20 |-> Idx(w, xRight, yUp),
         i01 |-> Idx(w, xLeft, y),                               i21 |-> Idx(w, xRight, y),
         i02 |-> Idx(w, xLeft, yDown), i12 |-> Idx(w, x, yDown), i22 |-> Idx(w, xRight, yDown)]

RecordValues(r) == {r[f] : f \in DOMAIN r}

\* ((d / len) * 0.5 + 0.5) * 255 as stored, for d = D/s and len = sqrt(L2)/s
EncodeXY(D, L2) ==
    LET j == FloorScaledRoot(0, 255, 255, D * D, L2)
        ex == IsScaledRoot(j, 255, D * D, L2)
    IN  IF D >= 0 THEN ToUint8FromHalves(255 + j, ex)
        ELSE ToUint8FromHalves(IF ex THEN 255 - j ELSE 255 - j - 1, ex)

\* (dz / len) * 255 as stored, for dz = DZ/s > 0
EncodeZ(DZ, L2) ==
    LET j == FloorScaledRoot(0, 510, 510, DZ * DZ, L2)
    IN  ToUint8FromHalves(j, IsScaledRoot(j, 510, DZ * DZ, L2))

\* the output pixel for Sobel gradients dx, dy and strength = p/q.
\* dz = 255/strength; (dx, dy, dz) is scaled by |p| so that all are integers.
NormalPixel(dx, dy, strength) ==
    LET p == strength[1]
        q == strength[2]
        DX == Abs(p) * dx
        DY == Abs(p) * dy
        DZ == 255 * q
        L2 == DX * DX + DY * DY + DZ * DZ
    IN  IF p = 0
        THEN \* dz = Infinity, len = Infinity: dx/len = 0, dz/len = NaN, stored as 0
             <<128, 128, 0, 255>>
        ELSE <<EncodeXY(DX, L2), EncodeXY(DY, L2),
               IF p < 0 THEN 0 ELSE EncodeZ(DZ, L2), 255>>

\* a horizontal kernel whose left column lost its centre weight
SobelDxUnbalanced(g, s) ==
    At(g, s.i20) + 2 * At(g, s.i21) + At(g, s.i22)
      - (At(g, s.i00) + At(g, s.i01) + At(g, s.i02))

SobelDx(g, s) ==
    At(g, s.i20) + 2 * At(g, s.i21) + At(g, s.i22)
      - (At(g, s.i00) + 2 * At(g, s.i01) + At(g, s.i02))
SobelDy(g, s) ==
    At(g, s.i02) + 2 * At(g, s.i12) + At(g, s.i22)
      - (At(g, s.i00) + 2 * At(g, s.i10) + At(g, s.i20))

generateNormalMap(imageData, strength) ==
    LET w == imageData.width
        h == imageData.height
        gray == toGrayscale(imageData).data
    IN  ImageOf(w, h,
            [k \in PixelNumbers(w, h) |->
                LET s == SobelIdx(w, h, k % w, k \div w)
                IN  IF \E i \in RecordValues(s) : At(gray, i) = -1
                    THEN <<0, 0, 0, 255>>   \* undefined operand: NaN in every channel
                    ELSE NormalPixel(SobelDx(gray, s), SobelDy(gray, s), strength)])

generateNormalMapReads(imageData) ==
    LET w == imageData.width
        h == imageData.height
    IN  UNION {RecordValues(SobelIdx(w, h, k % w, k \div w)) : k \in PixelNumbers(w, h)}

(***************************************************************************)
(* MapGenerator.generateAOMap (the later variant, strength * 2)            *)
(***************************************************************************)
\* Math.min(n - 1, Math.max(0, v))
ClampCoord(v, n) == Min(n - 1, Max(0, v))

\* the index read for kernel offset number k of 0..24 (ky outer, kx inner)
AOIdx(w, h, x, y, k) ==
    Idx(w, ClampCoord(x + (k % 5) - 2, w), ClampCoord(y + (k \div 5) - 2, h))

RECURSIVE AOSum(_, _, _, _, _, _)
AOSum(gray, w, h, x, y, k) ==
    IF k < 0 THEN 0 ELSE At(gray, AOIdx(w, h, x, y, k)) + AOSum(gray, w, h, x, y, k - 1)

\* val = max(0, 255 - max(0, sum/count - center) * (strength * 2)), as stored
AOValue(sum, center, strength) ==
    LET diff == RMul(Rat(Max(0, sum - 25 * center), 25), RMul(strength, RInt(2)))
    IN  ToUint8Clamped(RMax(RInt(0), RSub(RInt(255), diff)))

generateAOMap(imageData, strength) ==
    LET w == imageData.width
        h == imageData.height
        gray == toGrayscale(imageData).data
    IN  ImageOf(w, h,
            [k \in PixelNumbers(w, h) |->
                LET x == k % w
                    y == k \div w
                    val == IF \E j \in 0 .. 24 : At(gray, AOIdx(w, h, x, y, j)) = -1
                           THEN 0   \* undefined operand: NaN
                           ELSE AOValue(AOSum(gray, w, h, x, y, 24), gray[Idx(w, x, y)], strength)
                IN  <<val, val, val, 255>>])

generateAOMapReads(imageData) ==
    LET w == imageData.width
        h == imageData.height
    IN  {AOIdx(w, h, k % w, k \div w, j) : k \in PixelNumbers(w, h), j \in 0 .. 24}

(***************************************************************************)
(* MapGenerator.generateMetalnessMap                                       *)
(***************************************************************************)
\* the value computed as for a metallic surface whatever the flag
MetalValueIgnoringFlag(g, isMetallic, baseVal) ==
    ToUint8Clamped(RDiv(RMul(RInt(g), baseVal), RInt(255)))

\* the value left on the 0..255 scale (no division by 255)
MetalValueOnByteScale(g, isMetallic, baseVal) ==
    IF isMetallic THEN ToUint8Clamped(RMul(RInt(g), baseVal)) ELSE 0

\* val = isMetallic ? (gray[i] * baseVal) / 255 : 0, as stored
MetalValue(g, isMetallic, baseVal) ==
    IF isMetallic THEN ToUint8Clamped(RDiv(RMul(RInt(g), baseVal), RInt(255))) ELSE 0

generateMetalnessMap(imageData, isMetallic, baseVal) ==
    LET w == imageData.width
        h == imageData.height
        gray == toGrayscale(imageData)
    IN  ImageOf(w, h,
            [k \in PixelNumbers(w, h) |->
                LET val == MetalValue(Pixel(gray, k % w, k \div w)[1], isMetallic, baseVal)
                IN  <<val, val, val, 255>>])

(***************************************************************************)
(* MapGenerator.generateCurvatureMap                                       *)
(***************************************************************************)
\* the indices of nxL, nxR (red of the left / right neighbour) and nyU, nyD
\* (green of the upper / lower neighbour)
CurvatureIdx(w, h, x, y) ==
    [l |-> Idx(w, PrevCoord(x), y),     r |-> Idx(w, NextCoord(x, w), y),
     u |-> Idx(w, x, PrevCoord(y)) + 1, d |-> Idx(w, x, NextCoord(y, h)) + 1]

\* (curv * 0.5 + 0.5) * 255 with curv = (nxR - nxL + (nyD - nyU)) * 0.5 and
\* n = (byte / 255) * 2 - 1, as stored
CurvatureValue(l, r, u, d) == ToUint8Clamped(Rat(255 + (r - l) + (d - u), 2))

generateCurvatureMap(normalData) ==
    LET w == normalData.width
        h == normalData.height
        data == normalData.data
    IN  ImageOf(w, h,
            [k \in PixelNumbers(w, h) |->
                LET c == CurvatureIdx(w, h, k % w, k \div w)
                    val == IF \E i \in RecordValues(c) : At(data, i) = -1
                           THEN 0
                           ELSE CurvatureValue(data[c.l], data[c.r], data[c.u], data[c.d])
                IN  <<val, val, val, 255>>])

generateCurvatureMapReads(normalData) ==
    LET w == normalData.width
        h == normalData.height
    IN  UNION {RecordValues(CurvatureIdx(w, h, k % w, k \div w)) : k \in PixelNumbers(w, h)}

(***************************************************************************)
(* TilingProcessor.applyCurve                                              *)
(***************************************************************************)
Curves == {"linear", "smooth", "cubic"}

\* smoothstep with its coefficients exchanged
applyCurveMiscoded(t, curve) ==
    CASE curve = "linear" -> t
      [] curve = "smooth" -> RMul(RMul(t, t), RSub(RInt(2), RMul(RInt(3), t)))
      [] curve = "cubic" ->
            RMul(RMul(RMul(t, t), t),
                 RAdd(RMul(t, RSub(RMul(t, RInt(6)), RInt(15))), RInt(10)))
      [] OTHER -> t

applyCurve(t, curve) ==
    CASE curve = "linear" -> t
      [] curve = "smooth" -> RMul(RMul(t, t), RSub(RInt(3), RMul(RInt(2), t)))
      [] curve = "cubic" ->
            RMul(RMul(RMul(t, t), t),
                 RAdd(RMul(t, RSub(RMul(t, RInt(6)), RInt(15))), RInt(10)))
      [] OTHER -> t

(***************************************************************************)
(* The canvas.  drawImage at an integer offset copies pixels.  The four    *)
(* draws at (+-w/2, +-h/2) tile the canvas without overlap; along an axis  *)
(* of even size n they are the cyclic shift by n/2.  Along an axis of odd  *)
(* size the offsets are half-pixel offsets and the outcome is up to the    *)
(* rasteriser: it snaps the draws down (shift by (n+1)/2), snaps them up   *)
(* (shift by (n-1)/2) or resamples (each pixel the mean of the two).       *)
(***************************************************************************)
RasterModes == {"snapDown", "snapUp", "smooth"}

\* the four draws placed one pixel off
HalfShiftTapsOffByOne(n, x, mode) == <<(x + (n \div 2) + 1) % n>>

\* the source coordinates that make up destination coordinate x
HalfShiftTaps(n, x, mode) ==
    IF n % 2 = 0 THEN <<(x + (n \div 2)) % n>>
    ELSE CASE mode = "snapDown" -> <<(x + ((n + 1) \div 2)) % n>>
           [] mode = "snapUp" -> <<(x + ((n - 1) \div 2)) % n>>
           [] OTHER -> <<(x + ((n - 1) \div 2)) % n, (x + ((n + 1) \div 2)) % n>>

\* the sum of channel c over the taps tx x ty
TapSum(img, tx, ty, c) ==
    LET n == Len(tx) * Len(ty)
        f[i \in 0 .. n] ==
            IF i = 0 THEN 0
            ELSE f[i - 1] + Pixel(img, tx[((i - 1) % Len(tx)) + 1], ty[((i - 1) \div Len(tx)) + 1])[c]
    IN  f[n]

\* the canvas after drawImage(canvas, -w/2, -h/2), (w/2, -h/2), (-w/2, h/2), (w/2, h/2)
OffsetImage(canvas, mode) ==
    LET w == canvas.width
        h == canvas.height
    IN  ImageOf(w, h,
            [k \in PixelNumbers(w, h) |->
                LET tx == HalfShiftTaps(w, k % w, mode)
                    ty == HalfShiftTaps(h, k \div w, mode)
                IN  [c \in 1 .. 4 |->
                        ToUint8Clamped(Rat(TapSum(canvas, tx, ty, c), Len(tx) * Len(ty)))]])

processOffsetOnly(canvas, mode) == OffsetImage(canvas, mode)

(***************************************************************************)
(* TilingProcessor.processCrossBlend                                       *)
(***************************************************************************)
\* Math.abs(v - n / 2)
DistToCentre(v, n) == Rat(Abs(2 * v - n), 2)

\* the ramp running the wrong way (dist / blend instead of 1 - dist / blend)
AxisAlphaInverted(v, n, blendAmount, curve) ==
    LET dist == DistToCentre(v, n)
        blend == RMul(RInt(n), blendAmount)
    IN  IF RLess(dist, blend) THEN applyCurve(RDiv(dist, blend), curve) ELSE RInt(0)

\* alphaH / alphaV: the weight from one axis
AxisAlpha(v, n, blendAmount, curve) ==
    LET dist == DistToCentre(v, n)
        blend == RMul(RInt(n), blendAmount)
    IN  IF RLess(dist, blend)
        THEN applyCurve(RSub(RInt(1), RDiv(dist, blend)), curve)
        ELSE RInt(0)

CrossBlendAlpha(w, h, x, y, blendAmount, curve) ==
    RMax(AxisAlpha(y, h, blendAmount, curve), AxisAlpha(x, w, blendAmount, curve))

\* offset * (1 - alpha) + original * alpha, as stored
BlendChannel(offset, original, alpha) ==
    ToUint8Clamped(RAdd(RMul(RInt(offset), RSub(RInt(1), alpha)),
                        RMul(RInt(original), alpha)))

processCrossBlend(canvas, blendAmount, curve, mode) ==
    LET w == canvas.width
        h == canvas.height
        offsetData == OffsetImage(canvas, mode)
    IN  ImageOf(w, h,
            [k \in PixelNumbers(w, h) |->
                LET x == k % w
                    y == k \div w
                    alpha == CrossBlendAlpha(w, h, x, y, blendAmount, curve)
                    off == Pixel(offsetData, x, y)
                    org == Pixel(canvas, x, y)
                IN  <<BlendChannel(off[1], org[1], alpha),
                      BlendChannel(off[2], org[2], alpha),
                      BlendChannel(off[3], org[3], alpha), 255>>])

(***************************************************************************)
(* TilingProcessor.processMirrorTile                                       *)
(***************************************************************************)
\* the source coordinate drawn at destination coordinate v: the quadrant draws
\* copy [0, n/2) and its reflection; for odd n both halves of the centre
\* column carry the source's centre column
MirrorCoord(v, n) == IF 2 * v < n THEN v ELSE n - 1 - v

MirrorImage(canvas) ==
    LET w == canvas.width
        h == canvas.height
    IN  ImageOf(w, h,
            [k \in PixelNumbers(w, h) |->
                Pixel(canvas, MirrorCoord(k % w, w), MirrorCoord(k \div w, h))])

\* whether the desaturation pass rewrites pixel (x, y)
InMirrorBlend(w, h, x, y, blendAmount) ==
    /\ RLess(RInt(0), blendAmount)
    /\ RLess(DistToCentre(x, w), RMul(RInt(w), blendAmount))
    /\ RLess(DistToCentre(y, h), RMul(RInt(h), blendAmount))

\* factor = Math.min(fx, fy)
MirrorFactor(w, h, x, y, blendAmount, curve) ==
    RMin(applyCurve(RDiv(DistToCentre(x, w), RMul(RInt(w), blendAmount)), curve),
         applyCurve(RDiv(DistToCentre(y, h), RMul(RInt(h), blendAmount)), curve))

\* data[idx + c] * factor + avg * (1 - factor), as stored
DesaturateChannel(v, avg, factor) ==
    ToUint8Clamped(RAdd(RMul(RInt(v), factor), RMul(avg, RSub(RInt(1), factor))))

processMirrorTile(canvas, blendAmount, curve) ==
    LET w == canvas.width
        h == canvas.height
        mirrored == MirrorImage(canvas)
    IN  ImageOf(w, h,
            [k \in PixelNumbers(w, h) |->
                LET x == k % w
                    y == k \div w
                    p == Pixel(mirrored, x, y)
                IN  IF InMirrorBlend(w, h, x, y, blendAmount)
                    THEN LET factor == MirrorFactor(w, h, x, y, blendAmount, curve)
                             avg == Rat(p[1] + p[2] + p[3], 3)
                         IN  <<DesaturateChannel(p[1], avg, factor),
                               DesaturateChannel(p[2], avg, factor),
                               DesaturateChannel(p[3], avg, factor), p[4]>>
                    ELSE p])

(***************************************************************************)
(* TilingProcessor.processPatchMatch                                       *)
(***************************************************************************)
\* getEnergy returns 255 without reading when (x, y) is on the border
OnBorder(w, h, x, y) == x <= 0 \/ x >= w - 1 \/ y <= 0 \/ y >= h - 1

\* idxL, idxR, idxU, idxD
EnergyIdx(w, x, y) ==
    [l |-> Idx(w, x - 1, y), r |-> Idx(w, x + 1, y),
     u |-> Idx(w, x, y - 1), d |-> Idx(w, x, y + 1)]

\* the indices getEnergy dereferences at (x, y)
getEnergyReads(w, h, x, y) ==
    IF OnBorder(w, h, x, y) THEN {}
    ELSE {i + c : i \in RecordValues(EnergyIdx(w, x, y)), c \in 0 .. 2}

getEnergy(data, w, h, x, y) ==
    IF OnBorder(w, h, x, y) THEN RInt(255)
    ELSE LET e == EnergyIdx(w, x, y)
             term(c) == Abs(At(data, e.r + c) - At(data, e.l + c))
                          + Abs(At(data, e.d + c) - At(data, e.u + c))
         IN  Rat(term(0) + term(1) + term(2), 3)

\* blendW = Math.floor(w * blendAmount), centerX = Math.floor(w / 2)
PatchBlend(n, blendAmount) == RFloor(RMul(RInt(n), blendAmount))
PatchDist(v, n) == Abs(v - (n \div 2))

InPatchZone(w, h, x, y, blendAmount) ==
    \/ PatchDist(x, w) < PatchBlend(w, blendAmount)
    \/ PatchDist(y, h) < PatchBlend(h, blendAmount)

\* distX < blendW ? 1 - distX / blendW : 0
PatchAxisFactor(v, n, blendAmount) ==
    IF PatchDist(v, n) < PatchBlend(n, blendAmount)
    THEN RSub(RInt(1), Rat(PatchDist(v, n), PatchBlend(n, blendAmount)))
    ELSE RInt(0)

PatchDistFactor(w, h, x, y, blendAmount) ==
    RMax(PatchAxisFactor(x, w, blendAmount), PatchAxisFactor(y, h, blendAmount))

\* energyOriginal / (energyOriginal + energyOffset + 1)
EnergyFactor(energyOriginal, energyOffset) ==
    RDiv(energyOriginal, RAdd(RAdd(energyOriginal, energyOffset), RInt(1)))

PatchMatchAlpha(offsetData, originalData, x, y, blendAmount, curve) ==
    LET w == originalData.width
        h == originalData.height
    IN  IF InPatchZone(w, h, x, y, blendAmount)
        THEN RMul(applyCurve(PatchDistFactor(w, h, x, y, blendAmount), curve),
                  RAdd(Rat(1, 2),
                       RMul(Rat(1, 2),
                            EnergyFactor(getEnergy(originalData.data, w, h, x, y),
                                         getEnergy(offsetData.data, w, h, x, y)))))
        ELSE RInt(0)

processPatchMatch(canvas, blendAmount, curve, mode) ==
    LET w == canvas.width
        h == canvas.height
        offsetData == OffsetImage(canvas, mode)
    IN  ImageOf(w, h,
            [k \in PixelNumbers(w, h) |->
                LET x == k % w
                    y == k \div w
                    alpha == PatchMatchAlpha(offsetData, canvas, x, y, blendAmount, curve)
                    off == Pixel(offsetData, x, y)
                    org == Pixel(canvas, x, y)
                IN  <<BlendChannel(off[1], org[1], alpha),
                      BlendChannel(off[2], org[2], alpha),
                      BlendChannel(off[3], org[3], alpha), 255>>])

processPatchMatchReads(canvas, blendAmount) ==
    LET w == canvas.width
        h == canvas.height
    IN  UNION {IF InPatchZone(w, h, k % w, k \div w, blendAmount)
               THEN getEnergyReads(w, h, k % w, k \div w) ELSE {} : k \in PixelNumbers(w, h)}

(***************************************************************************)
(* TilingProcessor.process                                                 *)
(***************************************************************************)
Algorithms == {"crossBlend", "mirror", "patchMatch", "offset"}

process(canvas, algorithm, blendAmount, curve, mode) ==
    CASE algorithm = "mirror" -> processMirrorTile(canvas, blendAmount, curve)
      [] algorithm = "patchMatch" -> processPatchMatch(canvas, blendAmount, curve, mode)
      [] algorithm = "offset" -> processOffsetOnly(canvas, mode)
      [] OTHER -> processCrossBlend(canvas, blendAmount, curve, mode)

(***************************************************************************)
(* The callers' inputs.                                                    *)
(***************************************************************************)
Dims(area) == {d \in (1 .. MaxW) \X (1 .. MaxH) : d[1] * d[2] <= area}

\* every image of the given sizes whose pixels are drawn from palette
Images(dims, palette) ==
    UNION {{ImageOf(d[1], d[2], pix) : pix \in [PixelNumbers(d[1], d[2]) -> palette]} : d \in dims}

MapPalette == {<<0, 0, 0, 255>>, <<255, 255, 255, 255>>, <<90, 31, 200, 128>>}
TilePalette == {<<10, 200, 60, 255>>, <<255, 255, 255, 128>>}

\* strength = p/q: the slider gives 0.1 .. 5; 0 and -1 are the invalid ones
Strengths == {<<-1, 1>>, <<0, 1>>, <<1, 10>>, <<1, 1>>, <<5, 1>>}
ValidStrength(s) == s[1] > 0 /\ s[1] <= 5 * s[2]

\* blendAmount = p/q: valid in (0, 0.5]
BlendAmounts == {<<-1, 10>>, <<0, 1>>, <<1, 5>>, <<1, 4>>, <<1, 2>>, <<3, 4>>}
ValidBlend(b) == b[1] > 0 /\ 2 * b[1] <= b[2]

NoParam == <<0, 0>>
NoCall ==
    [op |-> "none", strength |-> NoParam, blendAmount |-> NoParam, curve |-> "-", t |-> NoParam,
     contrast |-> NoParam, invert |-> FALSE, isMetallic |-> FALSE, baseVal |-> NoParam,
     opts |-> NoOpts]
MapCall(op, strength) == [NoCall EXCEPT !.op = op, !.strength = strength]
TileCall(op, blendAmount, curve) ==
    [NoCall EXCEPT !.op = op, !.blendAmount = blendAmount, !.curve = curve]
CurveCall(t, curve) == [NoCall EXCEPT !.op = "applyCurve", !.curve = curve, !.t = t]

\* contrast = p/q: the slider gives -1 .. 1
Contrasts == {<<-1, 1>>, <<-1, 2>>, <<0, 1>>, <<1, 2>>, <<1, 1>>}
RoughnessCall(invert) == [NoCall EXCEPT !.op = "generateRoughnessMap", !.invert = invert]
\* the colour options: neutral, and each slider on its own at a setting that
\* changes the pixels (brightness, saturation, delight in percent, hue in degrees)
ColorOptions ==
    {NoOpts,
     [brightness |-> 0],
     [NoOpts EXCEPT !.brightness = 20],
     [NoOpts EXCEPT !.brightness = 1],
     [NoOpts EXCEPT !.brightness = -1],
     [NoOpts EXCEPT !.brightness = 100],
     [NoOpts EXCEPT !.brightness = -100],
     [NoOpts EXCEPT !.contrast = 100],
     [NoOpts EXCEPT !.saturation = -100],
     [NoOpts EXCEPT !.saturation = 100],
     [NoOpts EXCEPT !.hue = 180],
     [NoOpts EXCEPT !.hue = -90],
     [NoOpts EXCEPT !.delightAmount = 100],
     [NoOpts EXCEPT !.brightness = 100, !.contrast = -100],
     [NoOpts EXCEPT !.brightness = 100, !.hue = 180]}
CorrectionCall(opts) == [NoCall EXCEPT !.op = "applyColorCorrection", !.opts = opts]

\* baseVal = p/q: the slider gives 0 .. 1
BaseVals == {<<0, 1>>, <<4, 5>>, <<1, 1>>}
MetalnessCall(isMetallic, baseVal) ==
    [NoCall EXCEPT !.op = "generateMetalnessMap", !.isMetallic = isMetallic, !.baseVal = baseVal]
HeightCall(contrast) == [NoCall EXCEPT !.op = "generateHeightMap", !.contrast = contrast]

(***************************************************************************)
(* App.downloadAll                                                         *)
(***************************************************************************)
\* Object.keys(canvasRefs): base, normal, height, roughness, metalness, ao,
\* curvature: one awaited toBlob each, then the awaited generateAsync
AwaitPoints == 8

\* isDownloading is the state the rendered closure sees; reset is the
\* setIsDownloading(false) queued by a finally block and not yet rendered;
\* generations holds, for each generation in progress, the await it is at
NoDownload ==
    [isDownloading |-> FALSE, reset |-> FALSE, generations |-> <<>>,
     started |-> 0, ignored |-> 0, succeeded |-> 0, failed |-> 0]

\* downloadAll without the test of isDownloading
downloadAllUnguarded(d) ==
    [d EXCEPT !.isDownloading = TRUE, !.reset = FALSE,
              !.generations = Append(@, 1), !.started = @ + 1]

\* the synchronous part of downloadAll: if (isDownloading) return;
\* setIsDownloading(true); ... up to the first await.  The update made in the
\* click handler is rendered before the next event is handled
downloadAll(d) ==
    IF d.isDownloading
    THEN [d EXCEPT !.ignored = @ + 1]
    ELSE [d EXCEPT !.isDownloading = TRUE, !.reset = FALSE,
                   !.generations = Append(@, 1), !.started = @ + 1]

\* the finally block: setIsDownloading(false)
Finally(d, i) ==
    [d EXCEPT !.generations = SubSeq(@, 1, i - 1) \o SubSeq(@, i + 1, Len(@)), !.reset = TRUE]

(***************************************************************************)
(* ThreeViewer: the environment and geometry effects                       *)
(***************************************************************************)
EnvModes == {"studio", "outdoor", "neutral"}
GeometryTypes == {"sphere", "roundedBox", "cube", "plane", "torus", "cylinder"}
\* child instanceof THREE.Light
IsLight(child) == child \in {"ambient", "directional"}
Lights(children) == SelectSeq(children, IsLight)

\* Object3D.remove: children.splice(index, 1)
RemoveAt(children, k) == SubSeq(children, 1, k - 1) \o SubSeq(children, k + 1, Len(children))

\* scene.children.forEach(child => { if (child instanceof THREE.Light)
\* scene.remove(child) }): forEach visits the indices 1 .. len of the array as
\* it is when each index comes up, and remove shifts the later children down
RECURSIVE ForEachRemoveLights(_, _, _)
ForEachRemoveLights(children, k, len) ==
    IF k > len THEN children
    ELSE IF k <= Len(children) /\ IsLight(children[k])
         THEN ForEachRemoveLights(RemoveAt(children, k), k + 1, len)
         ELSE ForEachRemoveLights(children, k + 1, len)

\* the effect of [envMode]: clear the environment, remove the lights, then add
\* the two manual lights (neutral) or start loading the mode's HDRI
EnvironmentEffect(v, envMode) ==
    LET remaining == ForEachRemoveLights(v.children, 1, Len(v.children))
    IN  IF envMode = "neutral"
        THEN [v EXCEPT !.envMode = envMode, !.environment = "null",
                       !.children = remaining \o <<"ambient", "directional">>]
        ELSE [v EXCEPT !.envMode = envMode, !.environment = "null",
                       !.children = remaining,
                       !.loads = Append(v.loads, envMode)]

\* the effect of [geometryType]: filter out the meshes, remove them, add one
GeometryEffect(v, geometryType) ==
    [v EXCEPT !.geometryType = geometryType,
              !.children = SelectSeq(v.children, LAMBDA c : c # "mesh") \o <<"mesh">>]

\* after the first render: the scene is created, the environment effect runs
\* for "studio", the geometry effect adds the sphere
Mounted ==
    GeometryEffect(
        EnvironmentEffect([envMode |-> "studio", geometryType |-> "sphere", children |-> <<>>,
                           environment |-> "null", loads |-> <<>>, changes |-> 0], "studio"),
        "sphere")

\* the preview and the generators share no state, so a behaviour exercises one
\* of the two: the preview's steps are taken from the initial buffers, the
\* generators' calls from the preview as mounted
ViewerStep(v) ==
    /\ status = "idle" /\ pass = 0 /\ run.pc = "idle" /\ calls = <<>>
    /\ download = NoDownload
    /\ viewer' = v
    /\ UNCHANGED <<input, src, out, call, reads, status, pass, weight, raster, run, heap, calls,
                   download>>

\* setEnvMode(env): a new value re-renders and runs the environment effect
SetEnvMode ==
    \E envMode \in EnvModes \ {viewer.envMode} :
        /\ viewer.changes < MaxChanges
        /\ ViewerStep([EnvironmentEffect(viewer, envMode) EXCEPT !.changes = @ + 1])

\* setGeometryType(g)
SetGeometryType ==
    \E geometryType \in GeometryTypes \ {viewer.geometryType} :
        /\ viewer.changes < MaxChanges
        /\ ViewerStep([GeometryEffect(viewer, geometryType) EXCEPT !.changes = @ + 1])

\* the callback of loader.load: scene.environment = envMap, whichever load
\* of the pending ones finishes
CompleteLoad ==
    \E i \in 1 .. Len(viewer.loads) :
        ViewerStep([viewer EXCEPT !.environment = viewer.loads[i],
                                  !.loads = RemoveAt(viewer.loads, i)])

\* the export shares no state with the generators or the preview either
DownloadStep(d) ==
    /\ status = "idle" /\ pass = 0 /\ run.pc = "idle" /\ calls = <<>>
    /\ viewer = Mounted
    /\ download' = d
    /\ UNCHANGED <<input, src, out, call, reads, status, pass, weight, raster, run, heap, calls,
                   viewer>>

\* a call of downloadAll
DownloadAll ==
    /\ download.started + download.ignored < MaxChanges
    /\ DownloadStep(downloadAll(download))

\* an awaited promise resolves: the next canvas, or the end of the try block
Resolve ==
    \E i \in 1 .. Len(download.generations) :
        IF download.generations[i] < AwaitPoints
        THEN DownloadStep([download EXCEPT !.generations[i] = @ + 1])
        ELSE DownloadStep([Finally(download, i) EXCEPT !.succeeded = @ + 1])

\* an awaited promise rejects, or a statement of the try block throws: catch
\* logs the error, finally runs
Throw ==
    \E i \in 1 .. Len(download.generations) :
        DownloadStep([Finally(download, i) EXCEPT !.failed = @ + 1])

\* the queued setIsDownloading(false) is rendered
RenderReset ==
    /\ download.reset
    /\ DownloadStep([download EXCEPT !.isDownloading = FALSE, !.reset = FALSE])

(***************************************************************************)
(* Calls.  No operation validates its parameters or throws: every call     *)
(* returns a buffer.                                                       *)
(***************************************************************************)
\* a first call, or the same call again on the buffer it returned
\* (processMaps is synchronous: no other call runs while it is in progress)
CanCall(c) ==
    /\ viewer = Mounted /\ download = NoDownload
    /\ run.pc = "idle"
    /\ calls = <<>>
    /\ status = "idle" \/ (status = "fed" /\ call = c)

Return(c, result, rd) ==
    /\ CanCall(c)
    /\ call' = c
    /\ out' = result
    /\ reads' = rd
    /\ status' = "returned"
    /\ pass' = pass + 1
    /\ UNCHANGED <<input, src, weight, raster, run, heap, calls, viewer, download>>

\* the caller hands the returned buffer to the next call
Feed ==
    /\ status = "returned"
    /\ pass < MaxPasses
    /\ src' = out
    /\ out' = NoImage
    /\ reads' = {}
    /\ status' = "fed"
    /\ UNCHANGED <<input, call, pass, weight, raster, run, heap, calls, viewer, download>>

\* TilingProcessor.applyCurve on its own, as the tiling loops call it
ApplyCurve ==
    \E n \in 0 .. CurveSteps, c \in Curves :
        /\ status = "idle"
        /\ run.pc = "idle"
        /\ calls = <<>>
        /\ viewer = Mounted /\ download = NoDownload
        /\ call' = CurveCall(Rat(n, CurveSteps), c)
        /\ weight' = applyCurve(Rat(n, CurveSteps), c)
        /\ status' = "returned"
        /\ pass' = pass + 1
        /\ UNCHANGED <<input, src, out, reads, raster, run, heap, calls, viewer, download>>

ToGrayscale == Return(MapCall("toGrayscale", NoParam), toGrayscale(src), {})

ApplyColorCorrection ==
    \E opts \in ColorOptions :
        Return(CorrectionCall(opts), applyColorCorrection(src, opts), {})

GenerateHeightMap ==
    \E c \in Contrasts : Return(HeightCall(c), generateHeightMap(src, c), {})

GenerateRoughnessMap ==
    \E invert \in BOOLEAN :
        Return(RoughnessCall(invert), generateRoughnessMap(src, invert), {})

GenerateNormalMap ==
    \E s \in Strengths :
        Return(MapCall("generateNormalMap", s), generateNormalMap(src, s),
               generateNormalMapReads(src))

GenerateAOMap ==
    \E s \in Strengths :
        Return(MapCall("generateAOMap", s), generateAOMap(src, s), generateAOMapReads(src))

GenerateMetalnessMap ==
    \E isMetallic \in BOOLEAN, baseVal \in BaseVals :
        Return(MetalnessCall(isMetallic, baseVal),
               generateMetalnessMap(src, isMetallic, baseVal), {})

GenerateCurvatureMap ==
    Return(MapCall("generateCurvatureMap", NoParam), generateCurvatureMap(src),
           generateCurvatureMapReads(src))

ProcessCrossBlend ==
    \E b \in BlendAmounts, c \in Curves :
        Return(TileCall("crossBlend", b, c), process(src, "crossBlend", b, c, raster), {})

ProcessMirrorTile ==
    \E b \in BlendAmounts, c \in Curves :
        Return(TileCall("mirror", b, c), process(src, "mirror", b, c, raster), {})

ProcessPatchMatch ==
    \E b \in BlendAmounts, c \in Curves :
        Return(TileCall("patchMatch", b, c), process(src, "patchMatch", b, c, raster),
               processPatchMatchReads(src, b))

\* process ignores blendAmount and curve for the offset algorithm
ProcessOffsetOnly ==
    Return(TileCall("offset", NoParam, "-"), process(src, "offset", NoParam, "-", raster), {})

(***************************************************************************)
(* App.processMaps: one synchronous run, a step per statement group.       *)
(***************************************************************************)
\* ctx.drawImage(source, 0, 0) onto a canvas of the same size, with the default
\* source-over compositing: an opaque source pixel replaces, a transparent one
\* leaves the destination, a translucent one is mixed with it
SourceOverPixel(ps, pd) ==
    LET as == ps[4]
        ad == pd[4]
        ao255 == as * 255 + ad * (255 - as)
        ch(c) == ToUint8Clamped(Rat(ps[c] * as * 255 + pd[c] * ad * (255 - as), ao255))
    IN  IF as = 255 THEN ps
        ELSE IF as = 0 THEN pd
        ELSE <<ch(1), ch(2), ch(3), ToUint8Clamped(Rat(ao255, 255))>>

DrawOver(sourceCanvas, canvas) ==
    LET w == canvas.width
        h == canvas.height
    IN  ImageOf(w, h,
            [k \in PixelNumbers(w, h) |->
                SourceOverPixel(Pixel(sourceCanvas, k % w, k \div w), Pixel(canvas, k % w, k \div w))])

\* the options of a run: each algorithm, with and without a brightness change
DefaultOptions ==
    [intensity |-> <<1, 1>>, contrast |-> 0, invert |-> FALSE,
     tilingBlend |-> <<1, 5>>, tilingAlgorithm |-> "crossBlend", tilingCurve |-> "smooth",
     brightness |-> 0, saturation |-> 0, hue |-> 0,
     isMetallic |-> TRUE, metalnessBase |-> <<1, 1>>, delightAmount |-> 0]
RunOptions ==
    {[DefaultOptions EXCEPT !.tilingAlgorithm = a, !.brightness = b] :
        a \in Algorithms, b \in {0, 20}}

Stages ==
    <<"tiling", "applyColorCorrection", "generateHeightMap", "generateNormalMap",
      "generateRoughnessMap", "generateAOMap", "generateMetalnessMap", "generateCurvatureMap">>

\* given records, in order, each stage called and the buffer passed to it
NoRun ==
    [pc |-> "idle", seamless |-> FALSE, opts |-> DefaultOptions, given |-> <<>>,
     offscreen |-> NoImage, seamlessCanvas |-> NoImage, correctedData |-> NoImage,
     heightData |-> NoImage, normalData |-> NoImage, roughnessData |-> NoImage,
     aoData |-> NoImage, metalData |-> NoImage, curvatureData |-> NoImage]

RunStep(next) ==
    /\ run' = next
    /\ UNCHANGED <<input, src, out, call, reads, status, pass, weight, raster, heap, calls,
                   viewer, download>>

Given(stage, buffer) == Append(run.given, [stage |-> stage, buffer |-> buffer])

\* processMaps(img, opts, seamless): the offscreen canvas with the image drawn
\* on it (a run starts on upload and again on every change of the options)
StartProcessMaps ==
    \E opts \in RunOptions, seamless \in BOOLEAN :
        /\ run.pc \in {"idle", "done"}
        /\ status = "idle"
        /\ calls = <<>>
        /\ viewer = Mounted /\ download = NoDownload
        /\ RunStep([NoRun EXCEPT !.pc = "tiling", !.seamless = seamless, !.opts = opts,
                                 !.offscreen = input])

\* if (seamless) { process(offscreen, ...); oCtx.drawImage(seamlessCanvas, 0, 0) }
RunTiling ==
    /\ run.pc = "tiling"
    /\ IF run.seamless
       THEN LET seamlessCanvas ==
                    process(run.offscreen, run.opts.tilingAlgorithm, run.opts.tilingBlend,
                            run.opts.tilingCurve, raster)
            IN  RunStep([run EXCEPT !.pc = "applyColorCorrection",
                                    !.given = Given("tiling", run.offscreen),
                                    !.seamlessCanvas = seamlessCanvas,
                                    !.offscreen = DrawOver(seamlessCanvas, run.offscreen)])
       ELSE RunStep([run EXCEPT !.pc = "applyColorCorrection"])

\* fullImgData = oCtx.getImageData(...); correctedData = applyColorCorrection(fullImgData, opts)
RunColorCorrection ==
    /\ run.pc = "applyColorCorrection"
    /\ LET fullImgData == run.offscreen
       IN  RunStep([run EXCEPT !.pc = "generateHeightMap",
                               !.given = Given("applyColorCorrection", fullImgData),
                               !.correctedData = applyColorCorrection(fullImgData, run.opts)])

RunHeightMap ==
    /\ run.pc = "generateHeightMap"
    /\ RunStep([run EXCEPT !.pc = "generateNormalMap",
                           !.given = Given("generateHeightMap", run.correctedData),
                           !.heightData =
                               generateHeightMap(run.correctedData, RInt(run.opts.contrast))])

RunNormalMap ==
    /\ run.pc = "generateNormalMap"
    /\ RunStep([run EXCEPT !.pc = "generateRoughnessMap",
                           !.given = Given("generateNormalMap", run.correctedData),
                           !.normalData = generateNormalMap(run.correctedData, run.opts.intensity)])

RunRoughnessMap ==
    /\ run.pc = "generateRoughnessMap"
    /\ RunStep([run EXCEPT !.pc = "generateAOMap",
                           !.given = Given("generateRoughnessMap", run.correctedData),
                           !.roughnessData =
                               generateRoughnessMap(run.correctedData, run.opts.invert)])

RunAOMap ==
    /\ run.pc = "generateAOMap"
    /\ RunStep([run EXCEPT !.pc = "generateMetalnessMap",
                           !.given = Given("generateAOMap", run.correctedData),
                           !.aoData = generateAOMap(run.correctedData, run.opts.intensity)])

RunMetalnessMap ==
    /\ run.pc = "generateMetalnessMap"
    /\ RunStep([run EXCEPT !.pc = "generateCurvatureMap",
                           !.given = Given("generateMetalnessMap", run.correctedData),
                           !.metalData =
                               generateMetalnessMap(run.correctedData, run.opts.isMetallic,
                                                    run.opts.metalnessBase)])

RunCurvatureMap ==
    /\ run.pc = "generateCurvatureMap"
    /\ RunStep([run EXCEPT !.pc = "done",
                           !.given = Given("generateCurvatureMap", run.normalData),
                           !.curvatureData = generateCurvatureMap(run.normalData)])

ProcessMapsStep ==
    \/ StartProcessMaps
    \/ RunTiling
    \/ RunColorCorrection
    \/ RunHeightMap
    \/ RunNormalMap
    \/ RunRoughnessMap
    \/ RunAOMap
    \/ RunMetalnessMap
    \/ RunCurvatureMap

(***************************************************************************)
(* The stages as they allocate and write ImageData objects.  Each returns  *)
(* the heap after the call and the index of the buffer it returns.         *)
(***************************************************************************)
\* new ImageData(...): a fresh object
Alloc(h, img) == Append(h, img)
\* stores through a buffer's data array
Write(h, id, img) == [h EXCEPT ![id] = img]

\* output = new ImageData(w, h); the loop fills output.data
toGrayscaleOn(h, a) == [heap |-> Alloc(h, toGrayscale(h[a])), ret |-> Len(h) + 1]

\* output = new ImageData(new Uint8ClampedArray(imageData.data), w, h): a copy
applyColorCorrectionOn(h, a, opts) ==
    LET copied == Alloc(h, h[a])
        output == Len(h) + 1
    IN  [heap |-> Write(copied, output, applyColorCorrection(copied[output], opts)),
         ret |-> output]

\* the remap written through the argument's own data array
generateHeightMapInPlace(h, a, contrast) ==
    [heap |-> Write(h, a, HeightRemap(toGrayscale(h[a]), contrast)), ret |-> a]

\* gray = this.toGrayscale(imageData); data = gray.data; the loop rewrites
\* data; return gray
generateHeightMapOn(h, a, contrast) ==
    LET g == toGrayscaleOn(h, a)
        gray == g.ret
    IN  [heap |-> Write(g.heap, gray, HeightRemap(g.heap[gray], contrast)), ret |-> gray]

\* gray = this.toGrayscale(imageData).data; output = new ImageData(w, h)
generateNormalMapOn(h, a, strength) ==
    LET g == toGrayscaleOn(h, a)
    IN  [heap |-> Alloc(g.heap, generateNormalMap(h[a], strength)), ret |-> Len(g.heap) + 1]

\* gray = this.toGrayscale(imageData); the loop rewrites gray.data when invert
generateRoughnessMapOn(h, a, invert) ==
    LET g == toGrayscaleOn(h, a)
        gray == g.ret
    IN  [heap |-> Write(g.heap, gray, generateRoughnessMap(h[a], invert)), ret |-> gray]

generateAOMapOn(h, a, strength) ==
    LET g == toGrayscaleOn(h, a)
    IN  [heap |-> Alloc(g.heap, generateAOMap(h[a], strength)), ret |-> Len(g.heap) + 1]

\* output = new ImageData(w, h) comes first, then gray
generateMetalnessMapOn(h, a, isMetallic, baseVal) ==
    LET output == Len(h) + 1
        blank == ImageOf(h[a].width, h[a].height,
                         [k \in PixelNumbers(h[a].width, h[a].height) |-> <<0, 0, 0, 0>>])
        g == toGrayscaleOn(Alloc(h, blank), a)
    IN  [heap |-> Write(g.heap, output, generateMetalnessMap(h[a], isMetallic, baseVal)),
         ret |-> output]

generateCurvatureMapOn(h, a) ==
    [heap |-> Alloc(h, generateCurvatureMap(h[a])), ret |-> Len(h) + 1]

StageOn(h, a, c) ==
    CASE c.op = "toGrayscale" -> toGrayscaleOn(h, a)
      [] c.op = "applyColorCorrection" -> applyColorCorrectionOn(h, a, c.opts)
      [] c.op = "generateHeightMap" -> generateHeightMapOn(h, a, c.contrast)
      [] c.op = "generateNormalMap" -> generateNormalMapOn(h, a, c.strength)
      [] c.op = "generateRoughnessMap" -> generateRoughnessMapOn(h, a, c.invert)
      [] c.op = "generateAOMap" -> generateAOMapOn(h, a, c.strength)
      [] c.op = "generateMetalnessMap" -> generateMetalnessMapOn(h, a, c.isMetallic, c.baseVal)
      [] OTHER -> generateCurvatureMapOn(h, a)

\* one call of each stage, with parameters under which it changes the pixels
StageCalls ==
    {MapCall("toGrayscale", NoParam),
     CorrectionCall([NoOpts EXCEPT !.brightness = 20]),
     HeightCall(<<1, 2>>),
     MapCall("generateNormalMap", <<1, 1>>),
     RoughnessCall(TRUE),
     MapCall("generateAOMap", <<1, 1>>),
     MetalnessCall(TRUE, <<1, 1>>),
     MapCall("generateCurvatureMap", NoParam)}

\* a caller invokes a stage on the source buffer or on the buffer the previous
\* call returned
CallStage ==
    \E c \in StageCalls, a \in DOMAIN heap :
        /\ status = "idle"
        /\ run.pc = "idle"
        /\ viewer = Mounted /\ download = NoDownload
        /\ Len(calls) < MaxPasses
        /\ a = 1 \/ (calls # <<>> /\ a = calls[Len(calls)].ret)
        /\ LET r == StageOn(heap, a, c)
           IN  /\ heap' = r.heap
               /\ calls' = Append(calls, [call |-> c, arg |-> a, ret |-> r.ret,
                                           before |-> heap[a], allocated |-> Len(heap)])
        /\ UNCHANGED <<input, src, out, call, reads, status, pass, weight, raster, run,
                       viewer, download>>

StartWith(images) ==
    /\ input \in images
    /\ src = input
    /\ out = NoImage
    /\ call = NoCall
    /\ reads = {}
    /\ status = "idle"
    /\ pass = 0
    /\ weight = NoParam
    /\ run = NoRun
    /\ heap = <<input>>
    /\ calls = <<>>
    /\ viewer = Mounted
    /\ download = NoDownload

(***************************************************************************)
(* Specifications.                                                         *)
(***************************************************************************)
\* the map generators on every small image; toGrayscale and
\* generateRoughnessMap are also called on their own result
InitMaps == StartWith(Images(Dims(MaxMapArea), MapPalette)) /\ raster = "smooth"
NextMaps ==
    \/ ToGrayscale
    \/ ApplyColorCorrection
    \/ GenerateHeightMap
    \/ GenerateRoughnessMap
    \/ GenerateNormalMap
    \/ GenerateAOMap
    \/ GenerateMetalnessMap
    \/ GenerateCurvatureMap
    \/ (Feed /\ call.op \in {"toGrayscale", "generateRoughnessMap"})
SpecMaps == InitMaps /\ [][NextMaps]_vars

\* the tiling algorithms on every small image, under every rasteriser where
\* the size makes it matter
InitTiling ==
    /\ StartWith(Images(Dims(MaxArea), TilePalette))
    /\ raster \in RasterModes
    /\ (input.width % 2 = 0 /\ input.height % 2 = 0) => raster = "smooth"

\* the offset algorithm, also called on its own result
NextOffset == ProcessOffsetOnly \/ (Feed /\ call.op = "offset")
SpecOffset == InitTiling /\ [][NextOffset]_vars

NextCrossBlend == ProcessCrossBlend
SpecCrossBlend == InitTiling /\ [][NextCrossBlend]_vars

NextMirror == ProcessMirrorTile
SpecMirror == InitTiling /\ [][NextMirror]_vars

NextPatchMatch == ProcessPatchMatch
SpecPatchMatch == InitTiling /\ [][NextPatchMatch]_vars

\* crossBlend on a source that is uniform except for its outermost border
BorderSizes == {10, 12}
BorderLevels == {0, 120, 255}
BorderedImage(w, h, inner, border) ==
    ImageOf(w, h,
        [k \in PixelNumbers(w, h) |->
            IF OnBorder(w, h, k % w, k \div w)
            THEN <<border, border, border, 255>>
            ELSE <<inner, inner, inner, 255>>])
BorderedImages ==
    {BorderedImage(w, h, a, b) :
        w \in BorderSizes, h \in BorderSizes, a \in BorderLevels, b \in BorderLevels}
InitBorder == StartWith(BorderedImages) /\ raster = "smooth"
SpecBorder == InitBorder /\ [][NextCrossBlend]_vars

\* the neighbour lookups on every size from 1x1 up, whatever the content
ReadDims == (1 .. MaxReadDim) \X (1 .. MaxReadDim)
UniformImages ==
    {ImageOf(d[1], d[2], [k \in PixelNumbers(d[1], d[2]) |-> p]) : d \in ReadDims, p \in MapPalette}
InitReads == StartWith(UniformImages) /\ raster = "smooth"
NextReads == GenerateNormalMap \/ GenerateAOMap \/ GenerateCurvatureMap \/ ProcessPatchMatch
SpecReads == InitReads /\ [][NextReads]_vars

\* patchMatch on canvases with interior pixels: black, a few pixels lit
EnergySizes == {4}
LitImage(w, h, lit) ==
    ImageOf(w, h,
        [k \in PixelNumbers(w, h) |->
            IF k \in lit THEN <<255, 255, 255, 255>> ELSE <<0, 0, 0, 255>>])
LitImages ==
    {LitImage(w, h, lit) :
        w \in EnergySizes, h \in EnergySizes,
        lit \in {s \in SUBSET PixelNumbers(4, 4) : Cardinality(s) <= MaxLit}}
InitEnergy == StartWith(LitImages) /\ raster = "smooth"
SpecEnergy == InitEnergy /\ [][NextPatchMatch]_vars

\* applyCurve on a grid of [0, 1]
InitCurve == StartWith({NoImage}) /\ raster = "smooth"
NextCurve == ApplyCurve
SpecCurve == InitCurve /\ [][NextCurve]_vars

\* processMaps on the smallest images, some of them translucent
InitPipeline == StartWith(Images(Dims(2), TilePalette)) /\ raster \in RasterModes
NextPipeline == ProcessMapsStep
SpecPipeline == InitPipeline /\ [][NextPipeline]_vars

\* the stages called on heap buffers, one call after another
InitBuffers == StartWith(Images(Dims(2), MapPalette)) /\ raster = "smooth"
NextBuffers == CallStage
SpecBuffers == InitBuffers /\ [][NextBuffers]_vars

\* the 3D preview
InitViewer == StartWith(Images(Dims(1), MapPalette)) /\ raster = "smooth"
NextViewer == SetEnvMode \/ SetGeometryType \/ CompleteLoad
SpecViewer == InitViewer /\ [][NextViewer]_vars

\* the ZIP export
InitDownload == StartWith(Images(Dims(1), MapPalette)) /\ raster = "smooth"
NextDownload == DownloadAll \/ Resolve \/ Throw \/ RenderReset
SpecDownload == InitDownload /\ [][NextDownload]_vars

\* every operation, on the smallest images
Init == StartWith(Images(Dims(2), MapPalette \cup TilePalette)) /\ raster \in RasterModes
Next ==
    \/ ToGrayscale
    \/ ApplyColorCorrection
    \/ GenerateHeightMap
    \/ GenerateRoughnessMap
    \/ GenerateNormalMap
    \/ GenerateAOMap
    \/ GenerateMetalnessMap
    \/ GenerateCurvatureMap
    \/ ProcessCrossBlend
    \/ ProcessMirrorTile
    \/ ProcessPatchMatch
    \/ ProcessOffsetOnly
    \/ ApplyCurve
    \/ Feed
    \/ ProcessMapsStep
    \/ CallStage
    \/ SetEnvMode
    \/ SetGeometryType
    \/ CompleteLoad
    \/ DownloadAll
    \/ Resolve
    \/ Throw
    \/ RenderReset
Spec == Init /\ [][Next]_vars

\* every operation that takes a buffer and returns one
NextOperations ==
    \/ ToGrayscale
    \/ ApplyColorCorrection
    \/ GenerateHeightMap
    \/ GenerateRoughnessMap
    \/ GenerateNormalMap
    \/ GenerateAOMap
    \/ GenerateMetalnessMap
    \/ GenerateCurvatureMap
    \/ ProcessCrossBlend
    \/ ProcessMirrorTile
    \/ ProcessPatchMatch
    \/ ProcessOffsetOnly
    \/ Feed
SpecOperations == Init /\ [][NextOperations]_vars

(***************************************************************************)
(* Properties.                                                             *)
(***************************************************************************)
Returned(op) == status = "returned" /\ call.op = op
RGB(p) == <<p[1], p[2], p[3]>>
PixelsOf(img) == PixelNumbers(img.width, img.height)
PixelAt(img, k) == Pixel(img, k % img.width, k \div img.width)

\* C1: every pixel of generateNormalMap's output, for a strength in (0,5],
\* decodes through (2R/255-1, 2G/255-1, 2B/255-1) to a vector of norm 1 within
\* rounding tolerance (2 percent here: 0.98^2 <= |v|^2 <= 1.02^2), also where
\* the Sobel gradient is not zero.
C1_DecodedNormIsUnit ==
    (Returned("generateNormalMap") /\ ValidStrength(call.strength)) =>
        \A k \in PixelsOf(out) :
            LET p == PixelAt(out, k)
                n2 == (2 * p[1] - 255) * (2 * p[1] - 255)
                        + (2 * p[2] - 255) * (2 * p[2] - 255)
                        + (2 * p[3] - 255) * (2 * p[3] - 255)
            IN  2401 * 65025 <= 2500 * n2 /\ 2500 * n2 <= 2601 * 65025

\* C2 (as claimed): for every width and height, even or odd, processOffsetOnly
\* applied twice returns the source pixel for pixel.
C2_OffsetTwiceIsIdentity ==
    (Returned("offset") /\ pass = 2) => out = input

\* C2 (amended): for every even width and even height, processOffsetOnly applied
\* twice returns the source pixel for pixel.
C2_OffsetTwiceIsIdentityEven ==
    (Returned("offset") /\ pass = 2 /\ input.width % 2 = 0 /\ input.height % 2 = 0) =>
        out = input

C2_Witness ==
    /\ Returned("offset") /\ pass = 2
    /\ input.width = 4 /\ input.height = 2
    /\ src # input
    /\ src = processOffsetOnly(input, raster)
    /\ out = input

\* C3: for every blendAmount in (0,0.5] and curve, processMirrorTile's output
\* has its leftmost column identical to its rightmost column and its top row
\* identical to its bottom row, and the desaturation pass changes no pixel of
\* the outer border.
C3_MirrorEdgesMatch ==
    (Returned("mirror") /\ ValidBlend(call.blendAmount)) =>
        LET w == out.width
            h == out.height
            mirrored == MirrorImage(src)
        IN  /\ \A y \in 0 .. h - 1 : Pixel(out, 0, y) = Pixel(out, w - 1, y)
            /\ \A x \in 0 .. w - 1 : Pixel(out, x, 0) = Pixel(out, x, h - 1)
            /\ \A k \in PixelsOf(out) :
                   OnBorder(w, h, k % w, k \div w) => PixelAt(out, k) = PixelAt(mirrored, k)

\* C4: in processCrossBlend with blendAmount in (0,0.5], a pixel on a seam
\* centre line has weight 1 and equals the source pixel; the weight of an axis
\* does not increase with the distance to its centre line; a pixel at least
\* blendAmount*dimension away from both centre lines has weight 0 and equals
\* the offset buffer's pixel.
C4_CrossBlendWeights ==
    (Returned("crossBlend") /\ ValidBlend(call.blendAmount)) =>
        LET w == src.width
            h == src.height
            b == call.blendAmount
            c == call.curve
            offsetData == OffsetImage(src, raster)
        IN  /\ \A k \in PixelsOf(src) :
                   LET x == k % w
                       y == k \div w
                       alpha == CrossBlendAlpha(w, h, x, y, b, c)
                   IN  /\ (2 * x = w \/ 2 * y = h) =>
                              /\ alpha = RInt(1)
                              /\ RGB(PixelAt(out, k)) = RGB(PixelAt(src, k))
                       /\ ( /\ RLeq(RMul(RInt(w), b), DistToCentre(x, w))
                            /\ RLeq(RMul(RInt(h), b), DistToCentre(y, h)) ) =>
                              /\ alpha = RInt(0)
                              /\ RGB(PixelAt(out, k)) = RGB(PixelAt(offsetData, k))
                       /\ PixelAt(out, k)[4] = 255
            /\ \A x \in 0 .. w - 1, x2 \in 0 .. w - 1 :
                   RLeq(DistToCentre(x, w), DistToCentre(x2, w)) =>
                       RLeq(AxisAlpha(x2, w, b, c), AxisAlpha(x, w, b, c))
            /\ \A y \in 0 .. h - 1, y2 \in 0 .. h - 1 :
                   RLeq(DistToCentre(y, h), DistToCentre(y2, h)) =>
                       RLeq(AxisAlpha(y2, h, b, c), AxisAlpha(y, h, b, c))

\* a 4-wide source on which all three cases show: a centre pixel that differs
\* from the offset buffer, a partly blended pixel, and an unblended pixel that
\* differs from the source
C4_Witness ==
    /\ Returned("crossBlend") /\ ValidBlend(call.blendAmount)
    /\ src.width = 4 /\ src.height = 2
    /\ LET offsetData == OffsetImage(src, raster)
           alpha(k) == CrossBlendAlpha(4, 2, k % 4, k \div 4, call.blendAmount, call.curve)
       IN  /\ \E k \in PixelsOf(src) :
                  /\ alpha(k) = RInt(1)
                  /\ RGB(PixelAt(src, k)) # RGB(PixelAt(offsetData, k))
                  /\ RGB(PixelAt(out, k)) = RGB(PixelAt(src, k))
           /\ \E k \in PixelsOf(src) :
                  /\ RLess(RInt(0), alpha(k)) /\ RLess(alpha(k), RInt(1))
                  /\ RGB(PixelAt(out, k)) # RGB(PixelAt(src, k))
                  /\ RGB(PixelAt(out, k)) # RGB(PixelAt(offsetData, k))
           /\ \E k \in PixelsOf(src) :
                  /\ alpha(k) = RInt(0)
                  /\ RGB(PixelAt(src, k)) # RGB(PixelAt(offsetData, k))
                  /\ RGB(PixelAt(out, k)) = RGB(PixelAt(offsetData, k))

\* C5: in processPatchMatch with blendAmount in (0,0.5], a pixel on a seam
\* centre line (inside a non-empty blend zone) has weight 1 and equals the
\* source pixel.
C5_PatchMatchCentreWeightIsOne ==
    (Returned("patchMatch") /\ ValidBlend(call.blendAmount)) =>
        LET w == src.width
            h == src.height
            b == call.blendAmount
            offsetData == OffsetImage(src, raster)
        IN  \A k \in PixelsOf(src) :
                LET x == k % w
                    y == k \div w
                IN  ( \/ (PatchDist(x, w) = 0 /\ PatchBlend(w, b) > 0)
                      \/ (PatchDist(y, h) = 0 /\ PatchBlend(h, b) > 0) ) =>
                        /\ PatchMatchAlpha(offsetData, src, x, y, b, call.curve) = RInt(1)
                        /\ RGB(PixelAt(out, k)) = RGB(PixelAt(src, k))

\* whether crossBlend blends pixel (x, y) at all
InCrossBlendZone(w, h, x, y, blendAmount) ==
    \/ RLess(DistToCentre(x, w), RMul(RInt(w), blendAmount))
    \/ RLess(DistToCentre(y, h), RMul(RInt(h), blendAmount))

\* |a - b| <= diff / (n * blendAmount) + 1: one step of the linear ramp over a
\* colour difference diff, with one unit of slack for the two byte roundings
WithinBlendRate(a, b, diff, n, blendAmount) ==
    RLeq(RInt(Abs(a - b)), RAdd(RDiv(RInt(diff), RMul(RInt(n), blendAmount)), RInt(1)))

\* C6: crossBlend with blendAmount = 0.2 and the linear curve, on a source that
\* is uniform except for a differently coloured outermost border: no two
\* horizontally or vertically adjacent output pixels inside the blend zone
\* differ by more than the per-step linear blend rate, the pixels of the band
\* that touch the outer border included.
C6_NoStepAboveBlendRate ==
    (Returned("crossBlend") /\ call.blendAmount = Rat(1, 5) /\ call.curve = "linear") =>
        LET w == src.width
            h == src.height
            b == call.blendAmount
            diff == Abs(Pixel(src, 1, 1)[1] - Pixel(src, 0, 0)[1])
        IN  \A k \in PixelsOf(out) :
                LET x == k % w
                    y == k \div w
                IN  InCrossBlendZone(w, h, x, y, b) =>
                      /\ (x + 1 < w /\ InCrossBlendZone(w, h, x + 1, y, b)) =>
                             WithinBlendRate(Pixel(out, x, y)[1], Pixel(out, x + 1, y)[1], diff, w, b)
                      /\ (y + 1 < h /\ InCrossBlendZone(w, h, x, y + 1, b)) =>
                             WithinBlendRate(Pixel(out, x, y)[1], Pixel(out, x, y + 1)[1], diff, h, b)

\* the calls section 7 of the specification wants rejected
InvalidCall(c) ==
    \/ c.op \in {"generateNormalMap", "generateAOMap"} /\ c.strength[1] <= 0
    \/ c.op \in {"crossBlend", "mirror", "patchMatch"} /\ ~ValidBlend(c.blendAmount)

\* C7: a call with strength <= 0, or with blendAmount <= 0 or > 0.5, is
\* rejected with an error before any pixel is processed, and returns no buffer.
C7_InvalidParameterRejected ==
    InvalidCall(call) => (status = "rejected" /\ out = NoImage)

\* C8: for every buffer of width >= 1 and height >= 1, every neighbour lookup
\* of generateNormalMap, generateAOMap, generateCurvatureMap and of
\* processPatchMatch's getEnergy reads an index inside [0, width*height*4).
C8_NeighbourReadsInBounds ==
    status = "returned" => reads \subseteq 0 .. (4 * src.width * src.height - 1)

\* the 5x5 kernel on a 1x1 buffer: all 25 lookups land on the only pixel
C8_Witness ==
    /\ Returned("generateAOMap")
    /\ src.width = 1 /\ src.height = 1
    /\ reads = {0}

\* C9: for each curve, applyCurve(0) = 0, applyCurve(1) = 1, the value lies in
\* [0,1], and applyCurve(s) <= applyCurve(t) for all 0 <= s <= t <= 1.
C9_CurveEndpointsAndMonotone ==
    Returned("applyCurve") =>
        /\ call.t = RInt(0) => weight = RInt(0)
        /\ call.t = RInt(1) => weight = RInt(1)
        /\ RLeq(RInt(0), weight) /\ RLeq(weight, RInt(1))
        /\ \A n \in 0 .. CurveSteps :
               RLeq(Rat(n, CurveSteps), call.t) =>
                   RLeq(applyCurve(Rat(n, CurveSteps), call.curve), weight)

C9_Witness ==
    /\ Returned("applyCurve")
    /\ call.curve = "cubic"
    /\ call.t = Rat(1, 4)
    /\ weight = Rat(53, 512)

\* C10: toGrayscale(toGrayscale(x)) = toGrayscale(x) in all four channels, and
\* alpha passes through unchanged.
C10_GrayscaleIdempotent ==
    Returned("toGrayscale") =>
        /\ \A k \in PixelsOf(out) : PixelAt(out, k)[4] = PixelAt(src, k)[4]
        /\ pass = 2 => out = src

\* the second call, on the grayscale of a source that was not gray and not opaque
C10_Witness ==
    /\ Returned("toGrayscale") /\ pass = 2
    /\ src = toGrayscale(input)
    /\ src # input
    /\ \E k \in PixelsOf(input) : PixelAt(input, k) = <<90, 31, 200, 128>>
    /\ out = src

C12_HeightMapRemap ==
    Returned("generateHeightMap") =>
        LET gray == toGrayscale(src)
            c == RMul(call.contrast, RInt(128))
            factor == RDiv(RMul(RInt(259), RAdd(c, RInt(255))),
                           RMul(RInt(255), RSub(RInt(259), c)))
        IN  /\ call.contrast = RInt(0) => out = gray
            /\ out.width = src.width /\ out.height = src.height
            /\ \A k \in PixelsOf(out) :
                   LET g == PixelAt(gray, k)[1]
                       v == RAdd(RMul(factor, RInt(g - 128)), RInt(128))
                       clamped == IF RLess(v, RInt(0)) THEN RInt(0)
                                  ELSE IF RLess(RInt(255), v) THEN RInt(255) ELSE v
                       p == PixelAt(out, k)
                   IN  /\ p[1] \in 0 .. 255
                       /\ p[1] = ToUint8Clamped(clamped)
                       /\ p[2] = p[1] /\ p[3] = p[1]

\* contrast 0.5 on a source holding (90, 31, 200, 128): gray 107 becomes
\* 1.6616 * (107 - 128) + 128 = 93.1
C12_Witness ==
    /\ Returned("generateHeightMap") /\ call.contrast = <<1, 2>>
    /\ \E k \in PixelsOf(src) :
           /\ PixelAt(src, k) = <<90, 31, 200, 128>>
           /\ PixelAt(out, k) = <<93, 93, 93, 128>>
    /\ \E k \in PixelsOf(src) :
           /\ PixelAt(src, k) = <<255, 255, 255, 255>>
           /\ PixelAt(out, k) = <<255, 255, 255, 255>>

\* C13: generateRoughnessMap with invert = true sets R, G and B of every pixel
\* to 255 minus the pixel's grayscale value; with invert = false it returns
\* exactly toGrayscale of the input; the inverting generator applied to its own
\* output returns the non-inverted grayscale of the original input.
C13_RoughnessInvert ==
    Returned("generateRoughnessMap") =>
        LET gray == toGrayscale(src)
        IN  /\ ~call.invert => out = gray
            /\ call.invert =>
                   /\ out.width = src.width /\ out.height = src.height
                   /\ \A k \in PixelsOf(out) :
                          LET g == PixelAt(gray, k)[1]
                          IN  PixelAt(out, k) = <<255 - g, 255 - g, 255 - g, PixelAt(src, k)[4]>>
            /\ (call.invert /\ pass = 2) => out = toGrayscale(input)

\* the inverting generator run on its own output, for a source with a black
\* pixel (inverted to white) and a coloured one
C13_Witness ==
    /\ Returned("generateRoughnessMap") /\ call.invert /\ pass = 2
    /\ src = generateRoughnessMap(input, TRUE)
    /\ src # out
    /\ \E k \in PixelsOf(input) :
           PixelAt(input, k) = <<0, 0, 0, 255>> /\ PixelAt(src, k) = <<255, 255, 255, 255>>
    /\ \E k \in PixelsOf(input) :
           PixelAt(input, k) = <<90, 31, 200, 128>> /\ PixelAt(out, k) = <<107, 107, 107, 128>>

\* C14: generateMetalnessMap with isMetallic = false returns a buffer whose
\* colour channels are 0 in every pixel, whatever the source content and the
\* base value: the result is the same buffer for every source of that size and
\* every base.
C14_NonMetallicIsZero ==
    (Returned("generateMetalnessMap") /\ ~call.isMetallic) =>
        out = ImageOf(src.width, src.height,
                      [k \in PixelNumbers(src.width, src.height) |-> <<0, 0, 0, 255>>])

\* a source with a white pixel and base 1, where a metallic surface would not
\* give 0
C14_Witness ==
    /\ Returned("generateMetalnessMap") /\ ~call.isMetallic
    /\ call.baseVal = <<1, 1>>
    /\ \E k \in PixelsOf(src) :
           /\ PixelAt(src, k) = <<255, 255, 255, 255>>
           /\ PixelAt(out, k) = <<0, 0, 0, 255>>
           /\ PixelAt(generateMetalnessMap(src, TRUE, call.baseVal), k) # <<0, 0, 0, 255>>

\* the stages that copy the input's alpha and those that write 255
AlphaPassThrough ==
    {"toGrayscale", "applyColorCorrection", "generateHeightMap", "generateRoughnessMap"}
AlphaOpaque ==
    {"generateNormalMap", "generateAOMap", "generateMetalnessMap", "generateCurvatureMap",
     "crossBlend", "patchMatch"}

\* C15: in every generated map the alpha of every pixel is 255 or the input
\* pixel's alpha: toGrayscale, applyColorCorrection, generateHeightMap and
\* generateRoughnessMap pass the input alpha through; generateNormalMap,
\* generateAOMap, generateMetalnessMap, generateCurvatureMap, processCrossBlend
\* and processPatchMatch write 255.
C15_AlphaIsOpaqueOrPassedThrough ==
    (status = "returned" /\ call.op \in AlphaPassThrough \cup AlphaOpaque) =>
        /\ out.width = src.width /\ out.height = src.height
        /\ \A k \in PixelsOf(out) :
               /\ call.op \in AlphaPassThrough => PixelAt(out, k)[4] = PixelAt(src, k)[4]
               /\ call.op \in AlphaOpaque => PixelAt(out, k)[4] = 255

\* a half-transparent pixel whose colour the correction changes and whose
\* alpha it keeps
C15_Witness ==
    /\ Returned("applyColorCorrection") /\ call.opts.brightness = 20
    /\ \E k \in PixelsOf(src) :
           /\ PixelAt(src, k) = <<90, 31, 200, 128>>
           /\ PixelAt(out, k) = <<141, 82, 251, 128>>

\* C16: for every source of any width w and height h, the buffer the offset
\* algorithm returns has the source's dimensions and satisfies
\* offset[y][x] = source[(y + h/2) mod h][(x + w/2) mod w] for every pixel (h/2
\* and w/2 taken as whole numbers), with no blending.
C16_OffsetIsModularShift ==
    (Returned("offset") /\ pass = 1) =>
        LET w == src.width
            h == src.height
        IN  /\ out.width = w /\ out.height = h
            /\ \A k \in PixelsOf(src) :
                   Pixel(out, k % w, k \div w)
                       = Pixel(src, ((k % w) + (w \div 2)) % w, ((k \div w) + (h \div 2)) % h)

\* C17: in one run of processMaps the stages occur in the order tiling (only
\* when seamless) -> colour correction -> height, normal, roughness, AO,
\* metalness -> curvature; with seamless enabled the buffer given to
\* applyColorCorrection equals the buffer TilingProcessor.process returned,
\* pixel for pixel, and with seamless disabled it is the raw source; every
\* generator receives the colour-corrected buffer; generateCurvatureMap
\* receives the normal map produced in the same run.
C17_StageOrderAndBuffers ==
    LET given == run.given
        expected == IF run.seamless THEN Stages ELSE Tail(Stages)
    IN  /\ Len(given) <= Len(expected)
        /\ \A i \in 1 .. Len(given) :
               /\ given[i].stage = expected[i]
               /\ given[i].stage = "applyColorCorrection" =>
                      given[i].buffer = (IF run.seamless THEN run.seamlessCanvas ELSE input)
               /\ given[i].stage \in {"generateHeightMap", "generateNormalMap",
                                      "generateRoughnessMap", "generateAOMap",
                                      "generateMetalnessMap"} =>
                      given[i].buffer = run.correctedData
               /\ given[i].stage = "generateCurvatureMap" =>
                      /\ given[i].buffer = run.normalData
                      /\ run.normalData = generateNormalMap(run.correctedData, run.opts.intensity)

\* C18: no stage modifies the buffer passed to it: after any call of
\* toGrayscale, applyColorCorrection, generateHeightMap, generateNormalMap,
\* generateRoughnessMap, generateAOMap, generateMetalnessMap or
\* generateCurvatureMap the input ImageData is unchanged; the returned buffer is
\* a distinct, newly allocated buffer of the same width and height; the same
\* stage called twice on the same input yields equal outputs.
C18_StagesLeaveInputUnchanged ==
    \A i \in 1 .. Len(calls) :
        LET r == calls[i]
        IN  /\ heap[r.arg] = r.before
            /\ r.ret # r.arg
            /\ r.ret > r.allocated
            /\ heap[r.ret].width = r.before.width
            /\ heap[r.ret].height = r.before.height
            /\ \A j \in 1 .. Len(calls) :
                   (j # i /\ calls[j].call = r.call /\ calls[j].arg = r.arg) =>
                       /\ calls[j].ret # r.ret
                       /\ heap[calls[j].ret] = heap[r.ret]

\* generateHeightMap twice on the source buffer: two fresh buffers with equal
\* content that differs from the source's
C18_Witness ==
    /\ Len(calls) = 2
    /\ calls[1].call.op = "generateHeightMap" /\ calls[2].call = calls[1].call
    /\ calls[1].arg = 1 /\ calls[2].arg = 1
    /\ calls[1].ret # calls[2].ret
    /\ heap[calls[1].ret] = heap[calls[2].ret]
    /\ heap[calls[1].ret] # heap[1]
    /\ heap[1] = input

\* C19: in processPatchMatch, for pixels inside the blend zone with the same
\* distance factor and the same local energy of the offset buffer, the blend
\* weight given to the original pixel does not increase when the original's
\* local energy increases.
C19_OriginalWeightFallsWithEnergy ==
    (Returned("patchMatch") /\ ValidBlend(call.blendAmount)) =>
        LET w == src.width
            h == src.height
            b == call.blendAmount
            offsetData == OffsetImage(src, raster)
            zone == {k \in PixelsOf(src) : InPatchZone(w, h, k % w, k \div w, b)}
            energyOriginal == [k \in zone |-> getEnergy(src.data, w, h, k % w, k \div w)]
            energyOffset == [k \in zone |-> getEnergy(offsetData.data, w, h, k % w, k \div w)]
            distFactor == [k \in zone |-> PatchDistFactor(w, h, k % w, k \div w, b)]
            alpha == [k \in zone |->
                         PatchMatchAlpha(offsetData, src, k % w, k \div w, b, call.curve)]
        IN  \A k1 \in zone, k2 \in zone :
                ( /\ distFactor[k1] = distFactor[k2]
                  /\ energyOffset[k1] = energyOffset[k2]
                  /\ RLess(energyOriginal[k1], energyOriginal[k2]) ) =>
                    RLeq(alpha[k2], alpha[k1])

\* C20: in processMirrorTile with blendAmount > 0 the desaturation pass covers
\* a cross-shaped band: every pixel within blendAmount*w of the vertical centre
\* line or within blendAmount*h of the horizontal centre line is blended toward
\* its own RGB average with keep-weight min(curve(distX/blendW),
\* curve(distY/blendH)); pixels outside the band are left exactly as mirrored.
C20_MirrorDesaturatesCrossBand ==
    (Returned("mirror") /\ RLess(RInt(0), call.blendAmount)) =>
        LET w == src.width
            h == src.height
            b == call.blendAmount
            mirrored == MirrorImage(src)
        IN  \A k \in PixelsOf(src) :
                LET x == k % w
                    y == k \div w
                    p == PixelAt(mirrored, k)
                    avg == Rat(p[1] + p[2] + p[3], 3)
                    keep == MirrorFactor(w, h, x, y, b, call.curve)
                    inBand == \/ RLess(DistToCentre(x, w), RMul(RInt(w), b))
                              \/ RLess(DistToCentre(y, h), RMul(RInt(h), b))
                IN  PixelAt(out, k) =
                        IF inBand
                        THEN <<DesaturateChannel(p[1], avg, keep),
                               DesaturateChannel(p[2], avg, keep),
                               DesaturateChannel(p[3], avg, keep), p[4]>>
                        ELSE p

\* the five stages in the documented order
StageOrder == <<"delight", "brightness", "contrast", "saturation", "hue">>
StageApplied(name, c, opts) ==
    CASE name = "delight" -> DelightStage(c, opts)
      [] name = "brightness" -> BrightnessStage(c, opts)
      [] name = "contrast" -> ContrastStage(c, opts)
      [] name = "saturation" -> SaturationStage(c, opts)
      [] OTHER -> HueStage(c, opts)
\* the unclamped value after the first n stages
RECURSIVE AfterStages(_, _, _)
AfterStages(n, p, opts) ==
    IF n = 0 THEN <<RInt(p[1]), RInt(p[2]), RInt(p[3])>>
    ELSE StageApplied(StageOrder[n], AfterStages(n - 1, p, opts), opts)
InRange(c) == \A i \in 1 .. 3 : RLeq(RInt(0), c[i]) /\ RLeq(c[i], RInt(255))
\* some stage before the last hands an out-of-range value to the next one
LeavesRange(p, opts) == \E n \in 1 .. 4 : ~InRange(AfterStages(n, p, opts))
ClampedOnce(p, opts) ==
    LET c == AfterStages(5, p, opts)
    IN  <<ClampStore(c[1]), ClampStore(c[2]), ClampStore(c[3])>>

\* C21 (as stated): applyColorCorrection applies delight, brightness, contrast,
\* saturation and hue in that order, each on the previous stage's unclamped
\* output, clamps once after the last stage, and the result differs from
\* clamping after each stage whenever an intermediate value leaves [0,255].
C21_ClampedOnceAndAlwaysDiffers ==
    Returned("applyColorCorrection") =>
        \A k \in PixelsOf(src) :
            LET p == PixelAt(src, k)
            IN  /\ RGB(PixelAt(out, k)) = ClampedOnce(p, call.opts)
                /\ LeavesRange(p, call.opts) =>
                       PixelAt(out, k) # CorrectPixelClampingEachStage(p, call.opts)

\* C21 (amended): the result is the five stages in that order on unclamped
\* values, clamped once at the end; it differs from clamping after each stage
\* only when an intermediate value leaves [0,255].
C21_ClampedOnceAtTheEnd ==
    Returned("applyColorCorrection") =>
        \A k \in PixelsOf(src) :
            LET p == PixelAt(src, k)
            IN  /\ RGB(PixelAt(out, k)) = ClampedOnce(p, call.opts)
                /\ PixelAt(out, k) # CorrectPixelClampingEachStage(p, call.opts) =>
                       LeavesRange(p, call.opts)

\* brightness 100 then hue 180 on (90,31,200): the hue stage sees 345, 286 and
\* 455, and the blue channel ends at 166 where per-stage clamping gives 255
C21_Witness ==
    /\ Returned("applyColorCorrection")
    /\ call.opts = [NoOpts EXCEPT !.brightness = 100, !.hue = 180]
    /\ \E k \in PixelsOf(src) :
           /\ PixelAt(src, k) = <<90, 31, 200, 128>>
           /\ LeavesRange(PixelAt(src, k), call.opts)
           /\ PixelAt(out, k) = <<255, 255, 166, 128>>
           /\ CorrectPixelClampingEachStage(PixelAt(src, k), call.opts) = <<255, 255, 255, 128>>

\* a call with every option but brightness neutral
BrightnessOnly(opts) == opts = [NoOpts EXCEPT !.brightness = opts.brightness]
\* clamp(c + shift, 0, 255) as a stored byte
ShiftedChannel(c, shift) ==
    ToUint8Clamped(RMin(RInt(255), RMax(RInt(0), RAdd(RInt(c), shift))))

\* C22 (as stated): with delightAmount, contrast, saturation and hue neutral,
\* option brightness = b in [-1,1] sets every colour channel c of every pixel
\* to clamp(c + b*255, 0, 255).
C22_BrightnessShiftOfFraction ==
    (Returned("applyColorCorrection") /\ BrightnessOnly(call.opts)
        /\ call.opts.brightness \in -1 .. 1) =>
        \A k \in PixelsOf(src), i \in 1 .. 3 :
            PixelAt(out, k)[i] =
                ShiftedChannel(PixelAt(src, k)[i], RInt(call.opts.brightness * 255))

\* C22 (amended): with the other options neutral, option brightness = b in
\* [-100,100] (a percentage) sets every colour channel c of every pixel to
\* clamp(c + (b/100)*255, 0, 255), stored as a byte.
C22_BrightnessShiftOfPercent ==
    (Returned("applyColorCorrection") /\ BrightnessOnly(call.opts)
        /\ call.opts.brightness \in -100 .. 100) =>
        \A k \in PixelsOf(src), i \in 1 .. 3 :
            PixelAt(out, k)[i] =
                ShiftedChannel(PixelAt(src, k)[i], Rat(call.opts.brightness * 255, 100))

\* brightness 1 moves (90,31,200) by 2.55 to (93,34,203); it takes brightness
\* 100 to turn a pixel white
C22_Witness ==
    /\ Returned("applyColorCorrection")
    /\ call.opts = [NoOpts EXCEPT !.brightness = 1]
    /\ \E k \in PixelsOf(src) :
           /\ PixelAt(src, k) = <<90, 31, 200, 128>>
           /\ PixelAt(out, k) = <<93, 34, 203, 128>>

\* C23: for every pixel generateAOMap writes
\* value = max(0, 255 - max(0, mean - center) * strength) to R, G and B, where
\* center is the pixel's grayscale and mean the average of the 25 grayscale
\* samples of its border-clamped 5x5 neighbourhood; hence a pixel at least as
\* bright as its neighbourhood mean gets 255.
C23_AOValueFormula ==
    Returned("generateAOMap") =>
        LET w == src.width
            h == src.height
            gray == toGrayscale(src).data
        IN  \A k \in PixelsOf(src) :
                LET center == gray[Idx(w, k % w, k \div w)]
                    mean == Rat(AOSum(gray, w, h, k % w, k \div w, 24), 25)
                    excess == RMax(RInt(0), RSub(mean, RInt(center)))
                    value == ToUint8Clamped(
                                 RMax(RInt(0), RSub(RInt(255), RMul(excess, call.strength))))
                IN  /\ PixelAt(out, k) = <<value, value, value, 255>>
                    /\ RLeq(mean, RInt(center)) => value = 255

\* C24: in processCrossBlend with blendAmount in (0,0.5], every pixel on the
\* output's outer border has blend weight 0 and equals the offset buffer's
\* pixel at that position, so that for every row the output pixels at x = w-1
\* and x = 0 (and for every column those at y = h-1 and y = 0) are pixels that
\* are adjacent in the source.
C24_CrossBlendBorderWeightIsZero ==
    (Returned("crossBlend") /\ ValidBlend(call.blendAmount)) =>
        LET w == src.width
            h == src.height
            offsetData == OffsetImage(src, raster)
            even == w % 2 = 0 /\ h % 2 = 0
            shifted(x, y) == RGB(Pixel(src, (x + w \div 2) % w, (y + h \div 2) % h))
        IN  \A k \in PixelsOf(out) :
                LET x == k % w
                    y == k \div w
                IN  OnBorder(w, h, x, y) =>
                        /\ CrossBlendAlpha(w, h, x, y, call.blendAmount, call.curve) = RInt(0)
                        /\ RGB(PixelAt(out, k)) = RGB(PixelAt(offsetData, k))
                        /\ even => RGB(PixelAt(out, k)) = shifted(x, y)

C26_MirrorOutputIsSymmetric ==
    ( /\ Returned("mirror") /\ ValidBlend(call.blendAmount)
      /\ src.width % 2 = 0 /\ src.height % 2 = 0 ) =>
        LET w == out.width
            h == out.height
        IN  \A x \in 0 .. w - 1, y \in 0 .. h - 1 :
                /\ Pixel(out, x, y) = Pixel(out, w - 1 - x, y)
                /\ Pixel(out, x, y) = Pixel(out, x, h - 1 - y)

\* the five options read the way the function reads them
Neutral(opts) ==
    \A name \in {"brightness", "contrast", "saturation", "hue", "delightAmount"} :
        Opt(opts, name) = 0

\* C27: applyColorCorrection with brightness, contrast, saturation, hue and
\* delightAmount all 0 (or absent from the options) is the identity: the
\* returned buffer equals the input in all four channels of every pixel.
C27_NeutralCorrectionIsIdentity ==
    (Returned("applyColorCorrection") /\ Neutral(call.opts)) => out = src

\* a call whose options hold only brightness: 0 returns (90,31,200,128) as it is
C27_Witness ==
    /\ Returned("applyColorCorrection")
    /\ DOMAIN call.opts = {"brightness"}
    /\ Neutral(call.opts)
    /\ out = src
    /\ \E k \in PixelsOf(src) : PixelAt(out, k) = <<90, 31, 200, 128>>

\* C28: after any sequence of environment-mode changes and geometry changes
\* the scene contains exactly two manual lights (one ambient, one directional)
\* while the mode is neutral and no lights while the mode is studio or outdoor.
C28_LightsMatchEnvMode ==
    Lights(viewer.children) =
        IF viewer.envMode = "neutral" THEN <<"ambient", "directional">> ELSE <<>>

\* C29: once every pending HDRI load has completed, scene.environment
\* corresponds to the currently selected envMode (null for neutral, the
\* selected mode's map for studio and outdoor), whatever the order in which the
\* loads complete relative to the mode changes.
C29_EnvironmentMatchesEnvMode ==
    viewer.loads = <<>> =>
        viewer.environment = IF viewer.envMode = "neutral" THEN "null" ELSE viewer.envMode

\* C30: downloadAll keeps isDownloading true for the whole ZIP generation and
\* always resets it to false when the generation ends, whether it succeeds or
\* throws; a call that observes isDownloading = true returns without starting a
\* second generation, so at most one ZIP generation is in progress at any time.
C30_OneGenerationAtATime ==
    /\ Len(download.generations) <= 1
    /\ download.generations # <<>> => download.isDownloading /\ ~download.reset
    /\ download.generations = <<>> =>
           (download.isDownloading <=> download.reset)
    /\ download.started = Len(download.generations) + download.succeeded + download.failed

\* a call made while the one generation is at its last await: it is ignored
C30_Witness ==
    /\ download.ignored = 1
    /\ download.started = 1
    /\ download.generations = <<AwaitPoints>>
    /\ download.isDownloading
====
